---- MODULE Spec2Model ----
(***************************************************************************)
(* A model of the rule-based form validation engine (js/validator.js,      *)
(* class FormValidator) and of its real-time field orchestrator            *)
(* (js/form-handler.js, class FormHandler).                                *)
(*                                                                         *)
(* Text is a sequence of one-character strings, so that length, trimming,  *)
(* equality and pattern tests are computed, not assumed.  The only         *)
(* exception are the literal runs of a message template, which never       *)
(* contain a brace and are kept as one symbol each.                        *)
(*                                                                         *)
(* A JavaScript value is a record [t, s, n]: t is the result of typeof     *)
(* (with "null" apart), s the text of a string, n the number (or 0/1 for   *)
(* a boolean).  Numbers are integers.                                      *)
(***************************************************************************)
EXTENDS Integers, Sequences, FiniteSets, TLC

(***************************************************************************)
(* JavaScript values                                                       *)
(***************************************************************************)
Undef == [t |-> "undefined", s |-> <<>>, n |-> 0]
Null == [t |-> "null", s |-> <<>>, n |-> 0]
Str(s) == [t |-> "string", s |-> s, n |-> 0]
Num(n) == [t |-> "number", s |-> <<>>, n |-> n]
Bool(b) == [t |-> "boolean", s |-> <<>>, n |-> IF b THEN 1 ELSE 0]

\* A number that may be NaN (the result of parseInt, parseFloat, Number).
NaN == [nan |-> TRUE, n |-> 0]
Finite(n) == [nan |-> FALSE, n |-> n]

\* `!value`: undefined, null, '', 0 and false are falsy.
Falsy(v) ==
    \/ v.t \in {"undefined", "null"}
    \/ v.t = "string" /\ v.s = <<>>
    \/ v.t \in {"number", "boolean"} /\ v.n = 0

DigitChars == <<"0", "1", "2", "3", "4", "5", "6", "7", "8", "9">>
Digits == {DigitChars[i] : i \in 1..10}
DigitValue(c) == (CHOOSE i \in 1..10 : DigitChars[i] = c) - 1
Whitespace == {" "}
UpperCase == {"A", "B", "C"}
LowerCase == {"a", "b", "c", "d", "e", "f", "i", "l", "n", "r", "s", "t", "u"}
\* the class [!@#$%^&*(),.?":{}|<>] of the password rule
SpecialChars == {"!", "@", "#", "$", "%", "^", "&", "*", "(", ")", ",", ".",
                 "?", "\"", ":", "{", "}", "|", "<", ">"}

RECURSIVE NatText(_)
NatText(n) ==
    IF n < 10 THEN <<DigitChars[n + 1]>>
    ELSE NatText(n \div 10) \o <<DigitChars[(n % 10) + 1]>>

\* String(value) / value.toString() / the implicit conversion of RegExp.test
\* and String.replace.
ToText(v) ==
    CASE v.t = "string" -> v.s
      [] v.t = "number" -> IF v.n < 0 THEN <<"-">> \o NatText(-v.n) ELSE NatText(v.n)
      [] v.t = "boolean" -> IF v.n = 1 THEN <<"t", "r", "u", "e">>
                                       ELSE <<"f", "a", "l", "s", "e">>
      [] v.t = "null" -> <<"n", "u", "l", "l">>
      [] OTHER -> <<"u", "n", "d", "e", "f", "i", "n", "e", "d">>

RECURSIVE TrimLeft(_)
TrimLeft(s) ==
    IF s # <<>> /\ Head(s) \in Whitespace THEN TrimLeft(Tail(s)) ELSE s

RECURSIVE TrimRight(_)
TrimRight(s) ==
    IF s # <<>> /\ s[Len(s)] \in Whitespace
    THEN TrimRight(SubSeq(s, 1, Len(s) - 1)) ELSE s

\* String.prototype.trim
Trim(s) == TrimRight(TrimLeft(s))

\* The value of the longest prefix of s made of digits, and its length.
RECURSIVE DigitPrefix(_, _, _)
DigitPrefix(s, i, acc) ==
    IF i <= Len(s) /\ s[i] \in Digits
    THEN DigitPrefix(s, i + 1, [n |-> acc.n * 10 + DigitValue(s[i]), len |-> acc.len + 1])
    ELSE acc

\* parseInt(text) / parseFloat(text), on texts without a fraction or an
\* exponent: leading white space, an optional sign, then digits; whatever
\* follows the digits is ignored; NaN when there is no digit.
ParseNumberPrefix(text) ==
    LET s == TrimLeft(text)
        signed == s # <<>> /\ s[1] \in {"-", "+"}
        d == DigitPrefix(s, IF signed THEN 2 ELSE 1, [n |-> 0, len |-> 0])
    IN  IF d.len = 0 THEN NaN
        ELSE Finite(IF signed /\ s[1] = "-" THEN -d.n ELSE d.n)

\* Number(value), the conversion of isNaN and of the relational operators:
\* a string must be numeric as a whole ('' and white space give 0).
ToNumber(v) ==
    CASE v.t = "number" -> Finite(v.n)
      [] v.t = "boolean" -> Finite(v.n)
      [] v.t = "null" -> Finite(0)
      [] v.t = "undefined" -> NaN
      [] OTHER ->
           LET s == Trim(v.s)
               signed == s # <<>> /\ s[1] \in {"-", "+"}
               d == DigitPrefix(s, IF signed THEN 2 ELSE 1, [n |-> 0, len |-> 0])
           IN  IF s = <<>> THEN Finite(0)
               ELSE IF d.len = 0 \/ d.len + (IF signed THEN 1 ELSE 0) # Len(s) THEN NaN
               ELSE Finite(IF signed /\ s[1] = "-" THEN -d.n ELSE d.n)

\* parseFloat(value) / parseInt(value): the argument is converted to text first.
ParseNumber(v) == ParseNumberPrefix(ToText(v))

\* a >= b and a <= b on numbers: false as soon as one side is NaN.
GreaterEq(a, b) == ~a.nan /\ ~b.nan /\ a.n >= b.n
LessEq(a, b) == ~a.nan /\ ~b.nan /\ a.n <= b.n

\* `x || fallback` on a parameter that is a number or absent.
OrDefault(v, fallback) == IF Falsy(v) THEN Finite(fallback) ELSE ToNumber(v)

(***************************************************************************)
(* JavaScript Map and plain objects.  Both enumerate in a defined order,   *)
(* so both are sequences of [key, val] entries.                            *)
(***************************************************************************)
MapKeys(m) == [i \in 1..Len(m) |-> m[i].key]
MapHas(m, k) == \E i \in 1..Len(m) : m[i].key = k
KeySet(m) == {m[i].key : i \in 1..Len(m)}
MapIndex(m, k) == CHOOSE i \in 1..Len(m) : m[i].key = k
\* Map.prototype.get; holds only where MapHas(m, k)
MapGet(m, k) == m[MapIndex(m, k)].val
\* Map.prototype.set: an existing key keeps its position, a new key goes last.
MapSet(m, k, v) ==
    IF MapHas(m, k)
    THEN [i \in 1..Len(m) |-> IF m[i].key = k THEN [key |-> k, val |-> v] ELSE m[i]]
    ELSE Append(m, [key |-> k, val |-> v])
\* Map.prototype.delete
MapDelete(m, k) == SelectSeq(m, LAMBDA e : e.key # k)

\* The array index a property key denotes, -1 when it is an ordinary string.
KeyIndex(k) == IF k \in Digits THEN DigitValue(k) ELSE -1

\* obj[k] = v on a plain object: own keys enumerate with the integer-like
\* keys first, in ascending order, then the other keys in insertion order.
ObjSet(obj, k, v) ==
    IF MapHas(obj, k) THEN MapSet(obj, k, v)
    ELSE IF KeyIndex(k) < 0 THEN Append(obj, [key |-> k, val |-> v])
    ELSE LET before == SelectSeq(obj, LAMBDA e : KeyIndex(e.key) >= 0 /\ KeyIndex(e.key) < KeyIndex(k))
             after == SelectSeq(obj, LAMBDA e : KeyIndex(e.key) < 0 \/ KeyIndex(e.key) > KeyIndex(k))
         IN  before \o <<[key |-> k, val |-> v]>> \o after

\* obj[k] on a snapshot of form values (a function from its keys to values)
Prop(obj, k) == IF k \in DOMAIN obj THEN obj[k] ELSE Undef

\* params[key] on the parameters of a rule reference
ParamGet(params, k) == IF MapHas(params, k) THEN MapGet(params, k) ELSE Undef

\* The property key a value denotes. Field names are one character long.
KeyOf(v) == IF Len(ToText(v)) = 1 THEN ToText(v)[1] ELSE "?"

(***************************************************************************)
(* The fields, the handles and the bounds of the inputs                    *)
(***************************************************************************)
\* Field names. "7" is an integer-like property key.
FieldNames == {"x", "y", "7"}

\* The handles (form elements). Each has its own name, type and attributes.
Elements == {"h1", "h2", "h3"}
\* Two radio inputs that form the required group "x", and an input that has
\* neither a name nor an id.
RadioElements == {"r1", "r2"}
Nameless == "n1"
\* element.name || element.id
ElName(h) == CASE h = "h1" -> "y" [] h = "h2" -> "x" [] h \in RadioElements -> "x"
               [] h = Nameless -> "" [] OTHER -> "7"
ElType(h) == IF h = "h3" THEN "checkbox" ELSE IF h \in RadioElements THEN "radio" ELSE "text"
ElRequired(h) == h = "h1" \/ h \in RadioElements
\* the value attribute of a checkbox ("on" when none is written)
CheckboxValue == Str(<<"o", "n">>)
\* The node a handle is a child of: h1 and h3 sit in a wrapper of their own,
\* h2 is appended to the form itself.
ElParent(h) == CASE h = "h1" -> "p1" [] h = "h3" -> "p3" [] OTHER -> "form"
\* document order of the handles
ElOrder == <<"h1", "h3", "h2", "r1", "r2", "n1">>
\* the elements of the form when the handler is constructed
StaticElements == {"h1", "h3"}

VARIABLES
    validationRules,    \* FormValidator.validationRules: Map name -> predicate
    errorMessages,      \* FormValidator.errorMessages: Map name -> template
    fieldConfigs,       \* FormValidator.fieldConfigs: Map field -> config
    attached,           \* the handles that are in the form
    elValue,            \* element.value of each handle
    elChecked,          \* element.checked of each handle
    elClass,            \* the validation classes in element.classList
    errorBoxes,         \* the .error-message nodes of the form, in document order
    fields,             \* FormHandler.fields: Map name -> {element, config}
    validationResults,  \* FormHandler.validationResults
    listeners,          \* per handle, the listeners addField has attached to it
    hooks,              \* the calls of onFormValid / onFormInvalid so far
    event,              \* the event the user has caused and the listeners have yet to handle
    removed,            \* per field name, what removeField has left of it
    call,               \* the last call of the public interface
    ret,                \* what that call returned (or that it threw)
    prev,               \* the validateForm call before it, if nothing was reconfigured since
    registrations,      \* per rule name, how often addValidationRule was called and its last arguments
    other               \* a second FormValidator of the page, once it is constructed

engineVars == <<validationRules, errorMessages, fieldConfigs>>
domVars == <<attached, elValue, elChecked, elClass, errorBoxes, event>>
handlerVars == <<fields, validationResults, listeners, hooks>>
observerVars == <<call, ret, prev, registrations, removed>>
vars == <<engineVars, domVars, handlerVars, observerVars, other>>

(***************************************************************************)
(* The predicates of the rule registry.  A predicate is named by where it  *)
(* is written; Invoke computes what calling it gives: "true", "false",     *)
(* "promise" (an async function returns a pending computation) or "throw". *)
(***************************************************************************)
BoolOutcome(b) == IF b THEN "true" ELSE "false"

\* /^[^\s@]+@[^\s@]+\.[^\s@]+$/
EmailRegex(s) ==
    \E a \in 2..Len(s) : \E d \in (a + 2)..(Len(s) - 1) :
        /\ s[a] = "@"
        /\ s[d] = "."
        /\ \A k \in (1..Len(s)) \ {a} : s[k] \notin (Whitespace \cup {"@"})

\* value.replace(/[\s\-\(\)]/g, '')
StripPhone(s) == SelectSeq(s, LAMBDA c : c \notin (Whitespace \cup {"-", "(", ")"}))

\* /^[\+]?[1-9][\d]{0,15}$/
PhoneRegex(s) ==
    LET r == IF s # <<>> /\ s[1] = "+" THEN Tail(s) ELSE s
    IN  /\ Len(r) \in 1..16
        /\ r[1] \in (Digits \ {"0"})
        /\ \A k \in 2..Len(r) : r[k] \in Digits

\* new RegExp(pattern).test(text) for a pattern of literal characters:
\* the pattern occurs somewhere in the text.
RegExpTest(pattern, text) ==
    \E i \in 0..(Len(text) - Len(pattern)) :
        \A k \in 1..Len(pattern) : text[i + k] = pattern[k]

\* Date.parse of an ISO calendar date YYYY-MM-DD
IsIsoDate(s) ==
    /\ Len(s) = 10
    /\ s[5] = "-" /\ s[8] = "-"
    /\ \A k \in {1, 2, 3, 4, 6, 7, 9, 10} : s[k] \in Digits
    /\ (DigitValue(s[6]) * 10 + DigitValue(s[7])) \in 1..12
    /\ (DigitValue(s[9]) * 10 + DigitValue(s[10])) \in 1..31

\* new URL(text) succeeds: the text starts with a scheme and a colon
\* (texts of the special schemes http, https, ftp, ws, wss and file, which
\* also need a host, are not among the inputs).
HasScheme(s) ==
    \E c \in 2..Len(s) :
        /\ s[c] = ":"
        /\ s[1] \in (LowerCase \cup UpperCase)
        /\ \A k \in 2..(c - 1) : s[k] \in (LowerCase \cup UpperCase \cup Digits \cup {"+", "-", "."})

\* The checked handles of the form named `group`:
\* form.querySelectorAll(`[name="${group}"]:checked`).length
CheckedCount(group) ==
    Cardinality({h \in attached : ElName(h) = group /\ elChecked[h]})

\* js/validator.js, initializeDefaultRules
Required(value) ==
    BoolOutcome(value.t \notin {"null", "undefined"} /\ Trim(ToText(value)) # <<>>)

MinLength(value, params) ==
    IF Falsy(value) THEN "true"
    ELSE BoolOutcome(GreaterEq(Finite(Len(ToText(value))), ToNumber(ParamGet(params, "length"))))

MaxLength(value, params) ==
    IF Falsy(value) THEN "true"
    ELSE BoolOutcome(LessEq(Finite(Len(ToText(value))), ToNumber(ParamGet(params, "length"))))

\* email with a slip: an empty value is tested like any other
EmailOfAnyValue(value) == BoolOutcome(EmailRegex(ToText(value)))

Email(value) ==
    IF Falsy(value) THEN "true" ELSE BoolOutcome(EmailRegex(ToText(value)))

\* value.replace is a method of strings only: any other truthy value throws
Phone(value) ==
    IF Falsy(value) THEN "true"
    ELSE IF value.t # "string" THEN "throw"
    ELSE BoolOutcome(PhoneRegex(StripPhone(value.s)))

IsNumber(value) ==
    IF Falsy(value) THEN "true"
    ELSE BoolOutcome(~ToNumber(value).nan /\ ~ParseNumber(value).nan)

Min(value, params) ==
    IF Falsy(value) THEN "true"
    ELSE BoolOutcome(GreaterEq(ParseNumber(value), ToNumber(ParamGet(params, "value"))))

Max(value, params) ==
    IF Falsy(value) THEN "true"
    ELSE BoolOutcome(LessEq(ParseNumber(value), ToNumber(ParamGet(params, "value"))))

\* new RegExp(undefined) is the empty pattern, which every text matches
Pattern(value, params) ==
    IF Falsy(value) THEN "true"
    ELSE IF ParamGet(params, "pattern").t = "undefined" THEN "true"
    ELSE BoolOutcome(RegExpTest(ToText(ParamGet(params, "pattern")), ToText(value)))

\* value.length is undefined unless the value is a string
Password(value, params) ==
    IF Falsy(value) THEN "true"
    ELSE LET text == ToText(value)
             has(class) == \E k \in 1..Len(text) : text[k] \in class
         IN  BoolOutcome(/\ has(UpperCase) /\ has(LowerCase) /\ has(Digits) /\ has(SpecialChars)
                         /\ value.t = "string"
                         /\ GreaterEq(Finite(Len(value.s)), OrDefault(ParamGet(params, "minLength"), 8)))

\* confirmPassword with a slip: the other field is never looked at
ConfirmPasswordUnchecked(value, params, formData) == "true"

ConfirmPassword(value, params, formData) ==
    IF Falsy(value) THEN "true"
    ELSE BoolOutcome(value = Prop(formData, KeyOf(ParamGet(params, "matchField"))))

Age(value, params) ==
    IF Falsy(value) THEN "true"
    ELSE LET age == ParseNumber(value)
         IN  BoolOutcome(/\ GreaterEq(age, OrDefault(ParamGet(params, "min"), 0))
                         /\ LessEq(age, OrDefault(ParamGet(params, "max"), 120)))

\* new Date(number) and new Date(boolean) are valid dates
IsDate(value) ==
    IF Falsy(value) THEN "true"
    ELSE IF value.t # "string" THEN "true"
    ELSE BoolOutcome(IsIsoDate(value.s))

Url(value) ==
    IF Falsy(value) THEN "true" ELSE BoolOutcome(HasScheme(ToText(value)))

\* examples/advanced-examples.js, EcommerceValidator: 'inventory'
Inventory(value) ==
    IF Falsy(value) THEN "true"
    ELSE LET qty == ParseNumber(value)
         IN  BoolOutcome(GreaterEq(qty, Finite(0)) /\ LessEq(qty, Finite(999999)))

\* js/formulario-empresarial.js: 'minSelected' counts the checked boxes of
\* the live form, not the values it is given
MinSelected(params) ==
    IF Falsy(ParamGet(params, "group")) THEN "true"
    ELSE BoolOutcome(GreaterEq(Finite(CheckedCount(KeyOf(ParamGet(params, "group")))),
                               OrDefault(ParamGet(params, "min"), 1)))

\* String.prototype.toLowerCase, on the letters the usernames are written with
ToLowerCase(s) ==
    [i \in 1..Len(s) |-> CASE s[i] = "A" -> "a" [] s[i] = "T" -> "t" [] OTHER -> s[i]]
\* takenUsernames of 'usernameAvailable'
TakenUsernames == {<<"a", "d", "m", "i", "n">>, <<"u", "s", "e", "r">>, <<"t", "e", "s", "t">>,
                   <<"d", "e", "m", "o">>, <<"r", "o", "o", "t">>}
\* What the computation that 'usernameAvailable' starts settles to, half a
\* second later: true, false, or a rejection (toLowerCase of a value that is
\* no string).
UsernameResolves(value) ==
    IF Falsy(value) THEN "true"
    ELSE IF value.t # "string" THEN "reject"
    ELSE BoolOutcome(ToLowerCase(value.s) \notin TakenUsernames)

\* 'usernameAvailable' as it would be were the engine to wait for the answer
UsernameAvailableAwaited(value) ==
    IF UsernameResolves(value) = "reject" THEN "throw" ELSE UsernameResolves(value)

\* examples/advanced-examples.js, UserRegistrationValidator: 'usernameAvailable'
\* is an async function: calling it returns a pending computation
UsernameAvailable(value) == "promise"

BuiltinRules == <<"required", "minLength", "maxLength", "email", "phone", "number",
                  "min", "max", "pattern", "password", "confirmPassword", "age",
                  "date", "url">>

\* validator(value, ruleParams, formData)
Invoke(validator, value, params, formData) ==
    CASE validator = "required" -> Required(value)
      [] validator = "minLength" -> MinLength(value, params)
      [] validator = "maxLength" -> MaxLength(value, params)
      [] validator = "email" -> Email(value)
      [] validator = "phone" -> Phone(value)
      [] validator = "number" -> IsNumber(value)
      [] validator = "min" -> Min(value, params)
      [] validator = "max" -> Max(value, params)
      [] validator = "pattern" -> Pattern(value, params)
      [] validator = "password" -> Password(value, params)
      [] validator = "confirmPassword" -> ConfirmPassword(value, params, formData)
      [] validator = "age" -> Age(value, params)
      [] validator = "date" -> IsDate(value)
      [] validator = "url" -> Url(value)
      [] validator = "inventory" -> Inventory(value)
      [] validator = "minSelected" -> MinSelected(params)
      [] OTHER -> UsernameAvailable(value)

(***************************************************************************)
(* Messages                                                                *)
(***************************************************************************)
\* A message argument: absent (undefined) or a text.
NoMessage == [given |-> FALSE, text |-> <<>>]
Msg(text) == [given |-> TRUE, text |-> text]
\* a message test with a slip: no message counts as given
MsgNever(m) == FALSE
\* undefined and '' are falsy
MsgTruthy(m) == m.given /\ m.text # <<>>

\* The characters of a parameter name.
KeyText(k) ==
    CASE k = "length" -> <<"l", "e", "n", "g", "t", "h">>
      [] k = "value" -> <<"v", "a", "l", "u", "e">>
      [] k = "min" -> <<"m", "i", "n">>
      [] k = "max" -> <<"m", "a", "x">>
      [] k = "group" -> <<"g", "r", "o", "u", "p">>
      [] OTHER -> <<k>>

Placeholder(k) == <<"{">> \o KeyText(k) \o <<"}">>

\* replace without the g flag: the first occurrence only
RECURSIVE ReplaceFirst(_, _, _)
ReplaceFirst(text, pat, rep) ==
    IF Len(text) < Len(pat) THEN text
    ELSE IF SubSeq(text, 1, Len(pat)) = pat
         THEN rep \o SubSeq(text, Len(pat) + 1, Len(text))
         ELSE <<Head(text)>> \o ReplaceFirst(Tail(text), pat, rep)

\* message.replace(new RegExp(pat, 'g'), rep) for a literal pat: every
\* occurrence, left to right, without rescanning what was put in.
RECURSIVE ReplaceAll(_, _, _)
ReplaceAll(text, pat, rep) ==
    IF Len(text) < Len(pat) THEN text
    ELSE IF SubSeq(text, 1, Len(pat)) = pat
         THEN rep \o ReplaceAll(SubSeq(text, Len(pat) + 1, Len(text)), pat, rep)
         ELSE <<Head(text)>> \o ReplaceAll(Tail(text), pat, rep)

\* The loop of formatErrorMessage over Object.entries(params)
RECURSIVE FormatLoop(_, _, _)
FormatLoop(message, params, i) ==
    IF i > Len(params) THEN message
    ELSE LET value == params[i].val
             skip == value.t \in {"null", "undefined"} \/ (value.t = "string" /\ value.s = <<>>)
         IN  FormatLoop(IF skip THEN message
                        ELSE ReplaceAll(message, Placeholder(params[i].key), ToText(value)),
                        params, i + 1)

\* formatErrorMessage with a slip: what is left between braces is cut out
RECURSIVE Blanked(_, _)
Blanked(text, inside) ==
    IF text = <<>> THEN <<>>
    ELSE IF Head(text) = "{" THEN Blanked(Tail(text), TRUE)
    ELSE IF Head(text) = "}" THEN Blanked(Tail(text), FALSE)
    ELSE IF inside THEN Blanked(Tail(text), TRUE)
    ELSE <<Head(text)>> \o Blanked(Tail(text), FALSE)

formatErrorMessageBlanking(ruleName, params) ==
    LET stored == IF MapHas(errorMessages, ruleName) THEN MapGet(errorMessages, ruleName)
                  ELSE NoMessage
        message == IF MsgTruthy(stored) THEN stored.text ELSE <<"Invalid value">>
    IN  Blanked(FormatLoop(message, params, 1), FALSE)

\* FormValidator.formatErrorMessage
formatErrorMessage(ruleName, params) ==
    LET stored == IF MapHas(errorMessages, ruleName) THEN MapGet(errorMessages, ruleName)
                  ELSE NoMessage
        message == IF MsgTruthy(stored) THEN stored.text ELSE <<"Invalid value">>
    IN  FormatLoop(message, params, 1)

(***************************************************************************)
(* Rule references and field configurations                                *)
(***************************************************************************)
\* a bare rule name
Ref(name) == [isString |-> TRUE, name |-> name, params |-> <<>>, message |-> NoMessage]
\* { name, params, message }; params <<>> is also what `rule.params || {}` gives
RefObj(name, params, message) ==
    [isString |-> FALSE, name |-> name, params |-> params, message |-> message]
Param(k, v) == [key |-> k, val |-> v]
\* A configuration whose rules is no list: missing ({}) or a string
\* ({rules: 'required'}).  `length` is what config.rules.length gives.
CfgMissingRules == [rules |-> <<>>, malformed |-> "missing", length |-> 0]
CfgStringRules == [rules |-> <<>>, malformed |-> "string", length |-> 8]
IsMalformed(config) == "malformed" \in DOMAIN config

(***************************************************************************)
(* FormValidator.validateField: the forEach over config.rules.  A call     *)
(* returns a result or throws; either way `trace` lists the predicates     *)
(* that were invoked, in order, and `warnings` what console.warn was given.*)
(***************************************************************************)
Returned(isValid, errors, flds, trace, warnings) ==
    [kind |-> "return", isValid |-> isValid, errors |-> errors, fields |-> flds,
     names |-> <<>>, trace |-> trace, warnings |-> warnings]
Thrown(trace, warnings) ==
    [kind |-> "throw", isValid |-> FALSE, errors |-> <<>>, fields |-> <<>>,
     names |-> <<>>, trace |-> trace, warnings |-> warnings]
NoResult == [kind |-> "none", isValid |-> FALSE, errors |-> <<>>, fields |-> <<>>,
             names |-> <<>>, trace |-> <<>>, warnings |-> <<>>]

RECURSIVE RuleLoop(_, _, _, _, _, _)
RuleLoop(fieldName, rules, i, value, formData, acc) ==
    IF i > Len(rules)
    THEN Returned(acc.errors = <<>>, acc.errors, <<>>, acc.trace, acc.warnings)
    ELSE LET rule == rules[i]
             ruleName == rule.name
             ruleParams == IF rule.isString THEN <<>> ELSE rule.params
             customMessage == IF rule.isString THEN NoMessage ELSE rule.message
         IN  IF ~MapHas(validationRules, ruleName)
             THEN RuleLoop(fieldName, rules, i + 1, value, formData,
                           [acc EXCEPT !.warnings = Append(@, ruleName)])
             ELSE LET outcome == Invoke(MapGet(validationRules, ruleName), value, ruleParams, formData)
                      traced == Append(acc.trace, [field |-> fieldName, index |-> i,
                                                   rule |-> ruleName, outcome |-> outcome])
                      message == IF MsgTruthy(customMessage) THEN customMessage.text
                                 ELSE formatErrorMessage(ruleName, ruleParams)
                  IN  IF outcome = "throw" THEN Thrown(traced, acc.warnings)
                      ELSE RuleLoop(fieldName, rules, i + 1, value, formData,
                                    [acc EXCEPT !.trace = traced,
                                                !.errors = IF outcome = "false"
                                                           THEN Append(@, [rule |-> ruleName,
                                                                           message |-> message,
                                                                           params |-> ruleParams])
                                                           ELSE @])

\* Variants of validateField with a plausible slip each: a field without
\* configuration checked as if required; the loop left at the first failure;
\* an unknown rule name reported as a failure.
validateFieldDefaultRequired(fieldName, value, formData) ==
    RuleLoop(fieldName,
             IF MapHas(fieldConfigs, fieldName) THEN MapGet(fieldConfigs, fieldName).rules
             ELSE <<Ref("required")>>,
             1, value, formData, [errors |-> <<>>, trace |-> <<>>, warnings |-> <<>>])

RECURSIVE RuleLoopEarlyExit(_, _, _, _, _, _)
RuleLoopEarlyExit(fieldName, rules, i, value, formData, acc) ==
    IF i > Len(rules) \/ acc.errors # <<>>
    THEN Returned(acc.errors = <<>>, acc.errors, <<>>, acc.trace, acc.warnings)
    ELSE LET one == RuleLoop(fieldName, <<rules[i]>>, 1, value, formData,
                             [errors |-> <<>>, trace |-> <<>>, warnings |-> <<>>])
         IN  IF one.kind = "throw" THEN Thrown(acc.trace \o one.trace, acc.warnings)
             ELSE RuleLoopEarlyExit(fieldName, rules, i + 1, value, formData,
                                    [errors |-> acc.errors \o one.errors,
                                     trace |-> acc.trace \o [k \in 1..Len(one.trace) |->
                                                               [one.trace[k] EXCEPT !.index = i]],
                                     warnings |-> acc.warnings \o one.warnings])

validateFieldEarlyExit(fieldName, value, formData) ==
    IF ~MapHas(fieldConfigs, fieldName)
    THEN Returned(TRUE, <<>>, <<>>, <<>>, <<>>)
    ELSE RuleLoopEarlyExit(fieldName, MapGet(fieldConfigs, fieldName).rules, 1, value, formData,
                           [errors |-> <<>>, trace |-> <<>>, warnings |-> <<>>])

validateFieldStrict(fieldName, value, formData) ==
    IF ~MapHas(fieldConfigs, fieldName)
    THEN Returned(TRUE, <<>>, <<>>, <<>>, <<>>)
    ELSE LET rules == MapGet(fieldConfigs, fieldName).rules
             r == RuleLoop(fieldName, rules, 1, value, formData,
                           [errors |-> <<>>, trace |-> <<>>, warnings |-> <<>>])
             unknown == [k \in 1..Len(r.warnings) |->
                           [rule |-> r.warnings[k], message |-> <<"Invalid value">>,
                            params |-> <<>>]]
         IN  IF r.kind = "throw" THEN r
             ELSE [r EXCEPT !.errors = @ \o unknown, !.isValid = (@ /\ unknown = <<>>)]

\* validateField with a slip: each failure is put in front of the earlier ones
validateFieldNewestFirst(fieldName, value, formData) ==
    IF ~MapHas(fieldConfigs, fieldName)
    THEN Returned(TRUE, <<>>, <<>>, <<>>, <<>>)
    ELSE LET r == RuleLoop(fieldName, MapGet(fieldConfigs, fieldName).rules, 1, value, formData,
                           [errors |-> <<>>, trace |-> <<>>, warnings |-> <<>>])
         IN  [r EXCEPT !.errors = [k \in 1..Len(@) |-> @[Len(@) + 1 - k]]]

validateField(fieldName, value, formData) ==
    IF ~MapHas(fieldConfigs, fieldName)
    THEN Returned(TRUE, <<>>, <<>>, <<>>, <<>>)
    ELSE IF IsMalformed(MapGet(fieldConfigs, fieldName))
    THEN Thrown(<<>>, <<>>)    \* config.rules.forEach is not a function
    ELSE RuleLoop(fieldName, MapGet(fieldConfigs, fieldName).rules, 1, value, formData,
                  [errors |-> <<>>, trace |-> <<>>, warnings |-> <<>>])

\* what a validateField call hands back to its caller
FieldResult(r) == [isValid |-> r.isValid, errors |-> r.errors]

\* FormValidator.getAllErrors: the forEach over Object.entries(results)
RECURSIVE getAllErrorsFrom(_, _)
getAllErrorsFrom(results, i) ==
    IF i > Len(results) THEN <<>>
    ELSE LET fieldName == results[i].key
             result == results[i].val
             own == IF ~result.isValid
                    THEN [k \in 1..Len(result.errors) |->
                            [field |-> fieldName, rule |-> result.errors[k].rule,
                             message |-> result.errors[k].message,
                             params |-> result.errors[k].params]]
                    ELSE <<>>
         IN  own \o getAllErrorsFrom(results, i + 1)

\* getAllErrors with a slip: only the first error of each field is copied
getAllErrorsFirstOnly(results) ==
    getAllErrorsFrom([i \in 1..Len(results) |->
                        [key |-> results[i].key,
                         val |-> [isValid |-> results[i].val.isValid,
                                  errors |-> IF results[i].val.errors = <<>> THEN <<>>
                                             ELSE <<results[i].val.errors[1]>>]]], 1)

getAllErrors(results) == getAllErrorsFrom(results, 1)

\* FormValidator.validateForm: the forEach over this.fieldConfigs
RECURSIVE FieldLoop(_, _, _)
FieldLoop(i, formData, acc) ==
    IF i > Len(fieldConfigs)
    THEN Returned(acc.isFormValid, getAllErrors(acc.results), acc.results, acc.trace, acc.warnings)
    ELSE LET fieldName == fieldConfigs[i].key
             fieldValue == Prop(formData, fieldName)
             r == validateField(fieldName, fieldValue, formData)
         IN  IF r.kind = "throw" THEN Thrown(acc.trace \o r.trace, acc.warnings \o r.warnings)
             ELSE FieldLoop(i + 1, formData,
                            [results |-> ObjSet(acc.results, fieldName, FieldResult(r)),
                             isFormValid |-> acc.isFormValid /\ r.isValid,
                             trace |-> acc.trace \o r.trace,
                             warnings |-> acc.warnings \o r.warnings])

\* validateForm with slips: it walks the keys of formData instead of the
\* configured fields; the validity of the last field overwrites the others.
RECURSIVE KeyLoop(_, _, _)
KeyLoop(keys, formData, acc) ==
    IF keys = {}
    THEN Returned(acc.isFormValid, getAllErrors(acc.results), acc.results, acc.trace, acc.warnings)
    ELSE LET fieldName == CHOOSE k \in keys : TRUE
             r == validateField(fieldName, Prop(formData, fieldName), formData)
         IN  IF r.kind = "throw" THEN Thrown(acc.trace \o r.trace, acc.warnings \o r.warnings)
             ELSE KeyLoop(keys \ {fieldName}, formData,
                          [results |-> ObjSet(acc.results, fieldName, FieldResult(r)),
                           isFormValid |-> acc.isFormValid /\ r.isValid,
                           trace |-> acc.trace \o r.trace,
                           warnings |-> acc.warnings \o r.warnings])

validateFormOverData(formData) ==
    KeyLoop(DOMAIN formData, formData,
            [results |-> <<>>, isFormValid |-> TRUE, trace |-> <<>>, warnings |-> <<>>])

validateFormLastWins(formData) ==
    LET r == FieldLoop(1, formData,
                       [results |-> <<>>, isFormValid |-> TRUE, trace |-> <<>>, warnings |-> <<>>])
    IN  IF r.kind = "return" /\ r.fields # <<>>
        THEN [r EXCEPT !.isValid = MapGet(r.fields, fieldConfigs[Len(fieldConfigs)].key).isValid]
        ELSE r

validateForm(formData) ==
    FieldLoop(1, formData, [results |-> <<>>, isFormValid |-> TRUE, trace |-> <<>>, warnings |-> <<>>])

\* FormValidator.getAvailableRules
getAvailableRules == MapKeys(validationRules)

(***************************************************************************)
(* The inputs the operations are called with                               *)
(***************************************************************************)
\* how often addValidationRule may be called for one name (the constructor's
\* registration of a built-in rule counts)
MaxRegistrations == 2

\* the values validateField is given
Values == {Undef, Str(<<>>), Str(<<" ">>), Str(<<"a">>),
           Str(<<"a", "@", "b", ".", "c">>), Num(25)}

\* snapshots of form values; "y" is a key no engine call configures
FdA == ("x" :> Str(<<"a">>)) @@ ("y" :> Str(<<>>))
FdB == ("x" :> Num(25)) @@ ("7" :> Str(<<"a", "@", "b", ".", "c">>))
FormDatas == {FdA, FdB}
\* the snapshot single-field calls are given as context
FieldFormDatas == {FdA}

\* the fields the engine is configured for directly
EngineFields == {"x", "7"}

CfgRequired == [rules |-> <<Ref("required")>>]
CfgMixed ==
    [rules |-> <<Ref("required"), Ref("doesNotExist"),
                 RefObj("minLength", <<Param("length", Num(3))>>, NoMessage),
                 Ref("email")>>]
CfgPhone == [rules |-> <<Ref("phone"), Ref("required")>>]
\* the shape of the `servicios` configuration of formulario-empresarial.js
CfgCustom ==
    [rules |-> <<RefObj("custom", <<Param("min", Num(1)), Param("group", Str(<<"7">>))>>,
                        NoMessage)>>]
Configs == {CfgMixed, CfgPhone, CfgCustom}

\* the names addValidationRule is called with, and the rules it is given
RegNames == {"email", "custom"}
CustomRules ==
    {[validator |-> "inventory",
      message |-> Msg(<<"Inventory quantity must be between 0 and 999,999">>)],
     [validator |-> "minSelected",
      message |-> Msg(<<"Debe seleccionar al menos ", "{", "m", "i", "n", "}", " opcion(es)">>)]}

\* the default message templates of initializeDefaultRules
DefaultMessage(name) ==
    CASE name = "required" -> <<"This field is required">>
      [] name = "minLength" ->
           <<"Must be at least ", "{", "l", "e", "n", "g", "t", "h", "}", " characters long">>
      [] name = "maxLength" ->
           <<"Must be no more than ", "{", "l", "e", "n", "g", "t", "h", "}", " characters long">>
      [] name = "email" -> <<"Please enter a valid email address">>
      [] name = "phone" -> <<"Please enter a valid phone number">>
      [] name = "number" -> <<"Please enter a valid number">>
      [] name = "min" -> <<"Value must be at least ", "{", "v", "a", "l", "u", "e", "}">>
      [] name = "max" -> <<"Value must be no more than ", "{", "v", "a", "l", "u", "e", "}">>
      [] name = "pattern" -> <<"Please match the required format">>
      [] name = "password" ->
           <<"Password must contain uppercase, lowercase, numbers, special characters, and be at least 8 characters long">>
      [] name = "confirmPassword" -> <<"Passwords do not match">>
      [] name = "age" ->
           <<"Please enter a valid age between ", "{", "m", "i", "n", "}", " and ",
             "{", "m", "a", "x", "}">>
      [] name = "date" -> <<"Please enter a valid date">>
      [] OTHER -> <<"Please enter a valid URL">>

(***************************************************************************)
(* The operations of FormValidator                                         *)
(***************************************************************************)
\* `fresh`: nothing the predicates read has changed since the call returned
NoCall == [op |-> "none", fieldName |-> "", value |-> Undef, formData |-> <<>>, fresh |-> TRUE]
NoPrev == [set |-> FALSE, formData |-> <<>>, ret |-> NoResult]
NoEvent == [type |-> "none", target |-> "none"]
\* what is remembered of a removed field: the handle it was tracked with, the
\* number of error boxes that handle was left with, and whether the handle has
\* had an input or blur event since
NotRemoved == [handle |-> "none", handled |-> FALSE, boxes |-> 0]
\* no second FormValidator has been constructed
NoInstance == [maps |-> "none", validationRules |-> <<>>, errorMessages |-> <<>>,
               fieldConfigs |-> <<>>]

\* a call that changes the engine forgets the results obtained before it
Forget == call' = NoCall /\ ret' = NoResult /\ prev' = NoPrev

\* a call that changes the configuration store is remembered with what it
\* was given and with the three Maps as it found them
Changed(op, fieldName, given) ==
    /\ call' = [op |-> op, fieldName |-> fieldName, value |-> Undef, formData |-> <<>>,
                fresh |-> TRUE, given |-> given,
                before |-> [validationRules |-> validationRules,
                            errorMessages |-> errorMessages,
                            fieldConfigs |-> fieldConfigs]]
    /\ ret' = NoResult
    /\ prev' = NoPrev

\* addValidationRule with a slip: a name already registered keeps its rule
addValidationRuleKeepFirst(rules, name, validator) ==
    IF MapHas(rules, name) THEN rules ELSE MapSet(rules, name, validator)

\* addValidationRule with a slip: only the message is stored, not the predicate
addValidationRuleDropped(rules, name, validator) == rules

\* FormValidator.addValidationRule: the two Map.set
addValidationRule(rules, name, validator) == MapSet(rules, name, validator)

\* constructor: initializeDefaultRules registers the built-in rules in turn
RECURSIVE DefaultRules(_)
DefaultRules(n) ==
    IF n = 0 THEN <<>>
    ELSE addValidationRule(DefaultRules(n - 1), BuiltinRules[n], BuiltinRules[n])

RECURSIVE DefaultMessages(_)
DefaultMessages(n) ==
    IF n = 0 THEN <<>>
    ELSE MapSet(DefaultMessages(n - 1), BuiltinRules[n], Msg(DefaultMessage(BuiltinRules[n])))

AddValidationRule(name, rule) ==
    /\ registrations[name].count < MaxRegistrations
    /\ validationRules' = addValidationRule(validationRules, name, rule.validator)
    /\ errorMessages' = MapSet(errorMessages, name, rule.message)
    /\ registrations' = [registrations EXCEPT ![name] =
                            [count |-> @.count + 1, validator |-> rule.validator,
                             message |-> rule.message]]
    /\ Forget
    /\ UNCHANGED <<fieldConfigs, domVars, handlerVars, removed>>
    /\ UNCHANGED other

\* configureField with a slip: the rules given are added to those the field
\* already has
configureFieldMerging(configs, fieldName, config) ==
    IF MapHas(configs, fieldName)
    THEN MapSet(configs, fieldName,
                [rules |-> MapGet(configs, fieldName).rules \o config.rules])
    ELSE MapSet(configs, fieldName, config)

\* FormValidator.configureField
configureField(configs, fieldName, config) == MapSet(configs, fieldName, config)

ConfigureField(fieldName, config) ==
    /\ fieldConfigs' = configureField(fieldConfigs, fieldName, config)
    /\ Changed("configureField", fieldName, config)
    /\ UNCHANGED <<validationRules, errorMessages, registrations, domVars, handlerVars, removed>>
    /\ UNCHANGED other

\* FormValidator.configureFields: configureField for every entry, in order
RECURSIVE configureFields(_, _)
configureFields(configs, entries) ==
    IF entries = <<>> THEN configs
    ELSE configureFields(configureField(configs, Head(entries).key, Head(entries).val),
                         Tail(entries))

ConfigureFields(entries) ==
    /\ fieldConfigs' = configureFields(fieldConfigs, entries)
    /\ Changed("configureFields", "", entries)
    /\ UNCHANGED <<validationRules, errorMessages, registrations, domVars, handlerVars, removed>>
    /\ UNCHANGED other

\* resetField with a slip: every configuration is dropped, as clearAll does
resetFieldAll(configs, fieldName) == <<>>

\* FormValidator.resetField
resetField(configs, fieldName) == MapDelete(configs, fieldName)

ResetField(fieldName) ==
    /\ fieldConfigs' = resetField(fieldConfigs, fieldName)
    /\ Changed("resetField", fieldName, <<>>)
    /\ UNCHANGED <<validationRules, errorMessages, registrations, domVars, handlerVars, removed>>
    /\ UNCHANGED other

\* FormValidator.clearAll
ClearAll ==
    /\ fieldConfigs' = <<>>
    /\ Changed("clearAll", "", <<>>)
    /\ UNCHANGED <<validationRules, errorMessages, registrations, domVars, handlerVars, removed>>
    /\ UNCHANGED other

ValidateField(fieldName, value, formData) ==
    /\ call' = [op |-> "validateField", fieldName |-> fieldName, value |-> value,
                formData |-> formData, fresh |-> TRUE]
    /\ ret' = validateField(fieldName, value, formData)
    /\ prev' = NoPrev
    /\ UNCHANGED <<engineVars, registrations, domVars, handlerVars, removed>>
    /\ UNCHANGED other

ValidateForm(formData) ==
    /\ call' = [op |-> "validateForm", fieldName |-> "", value |-> Undef, formData |-> formData,
                fresh |-> TRUE]
    /\ ret' = validateForm(formData)
    /\ prev' = IF call.op = "validateForm"
               THEN [set |-> TRUE, formData |-> call.formData, ret |-> ret]
               ELSE NoPrev
    /\ UNCHANGED <<engineVars, registrations, domVars, handlerVars, removed>>
    /\ UNCHANGED other

GetAvailableRules ==
    /\ call' = [op |-> "getAvailableRules", fieldName |-> "", value |-> Undef, formData |-> <<>>,
                fresh |-> TRUE]
    /\ ret' = [Returned(TRUE, <<>>, <<>>, <<>>, <<>>) EXCEPT !.names = getAvailableRules]
    /\ prev' = NoPrev
    /\ UNCHANGED <<engineVars, registrations, domVars, handlerVars, removed>>
    /\ UNCHANGED other

\* The user checks or unchecks a box of a page no FormHandler is attached to.
ToggleCheckbox(h) ==
    /\ ElType(h) = "checkbox"
    /\ h \in attached
    /\ elChecked' = [elChecked EXCEPT ![h] = ~@]
    /\ call' = [call EXCEPT !.fresh = (call.op = "none")]
    /\ UNCHANGED <<engineVars, attached, elValue, elClass, errorBoxes, event, handlerVars,
                   ret, prev, registrations, removed>>
    /\ UNCHANGED other

\* new FormValidator(), on a page whose form has the static elements
Init ==
    /\ validationRules = DefaultRules(Len(BuiltinRules))
    /\ errorMessages = DefaultMessages(Len(BuiltinRules))
    /\ fieldConfigs = <<>>
    /\ attached = StaticElements
    /\ elValue = [h \in Elements |-> IF ElType(h) = "checkbox" THEN CheckboxValue ELSE Str(<<>>)]
    /\ elChecked = [h \in Elements |-> FALSE]
    /\ elClass = [h \in Elements |-> {}]
    /\ errorBoxes = <<>>
    /\ fields = <<>>
    /\ validationResults = NoResult
    /\ listeners = [h \in Elements |-> 0]
    /\ hooks = <<>>
    /\ event = NoEvent
    /\ removed = [name \in FieldNames |-> NotRemoved]
    /\ other = NoInstance
    /\ call = NoCall
    /\ ret = NoResult
    /\ prev = NoPrev
    /\ registrations =
         [name \in RegNames |->
            IF \E i \in 1..Len(BuiltinRules) : BuiltinRules[i] = name
            THEN [count |-> 1, validator |-> name, message |-> Msg(DefaultMessage(name))]
            ELSE [count |-> 0, validator |-> "", message |-> NoMessage]]

Next ==
    \/ \E name \in RegNames, rule \in CustomRules : AddValidationRule(name, rule)
    \/ \E fieldName \in EngineFields, config \in Configs : ConfigureField(fieldName, config)
    \/ \E fieldName \in EngineFields : ResetField(fieldName)
    \/ ClearAll
    \/ \E fieldName \in FieldNames, value \in Values, formData \in FieldFormDatas :
          ValidateField(fieldName, value, formData)
    \/ \E formData \in FormDatas : ValidateForm(formData)
    \/ GetAvailableRules
    \/ \E h \in Elements : ToggleCheckbox(h)

Spec == Init /\ [][Next]_vars

(***************************************************************************)
(* FormHandler (src/js/form-handler.js): the fields it tracks, what it     *)
(* displays on the handles, and the listeners that drive it.               *)
(***************************************************************************)
\* the most addField calls that attach listeners to one handle
MaxListeners == 1
\* the most .error-message boxes the form is let to hold
MaxBoxes == 3

\* the position of a handle in document order
ElPos(h) == CHOOSE i \in 1..Len(ElOrder) : ElOrder[i] = h
\* the handles inside a node (querySelector on a node searches its descendants)
Within(node) == IF node = "form" THEN Elements ELSE {h \in Elements : ElParent(h) = node}

\* the rule an input type stands for
TypeRules(type) ==
    CASE type = "email" -> <<Ref("email")>>
      [] type = "tel" -> <<Ref("phone")>>
      [] type = "number" -> <<Ref("number")>>
      [] type = "url" -> <<Ref("url")>>
      [] type = "date" -> <<Ref("date")>>
      [] OTHER -> <<>>

\* The handles carry `required` and a type; none has a length, range,
\* pattern or data-validate attribute.
parseValidationAttributes(h) ==
    [rules |-> (IF ElRequired(h) THEN <<Ref("required")>> ELSE <<>>) \o TypeRules(ElType(h))]

\* a discovery that configures every field it tracks
DiscoverElementAlways(acc, h) ==
    IF ElName(h) = "" THEN acc
    ELSE [fields |-> MapSet(acc.fields, ElName(h),
                            [element |-> h, config |-> parseValidationAttributes(h)]),
          configs |-> configureField(acc.configs, ElName(h), parseValidationAttributes(h))]

\* the callback of discoverFields, given one element of the form
DiscoverElement(acc, h) ==
    IF ElName(h) = "" THEN acc
    ELSE [fields |-> MapSet(acc.fields, ElName(h),
                            [element |-> h, config |-> parseValidationAttributes(h)]),
          configs |-> IF Len(parseValidationAttributes(h).rules) > 0
                      THEN configureField(acc.configs, ElName(h), parseValidationAttributes(h))
                      ELSE acc.configs]

\* form.querySelectorAll(...).forEach over the elements present in the form,
\* in document order
RECURSIVE DiscoverLoop(_, _, _)
DiscoverLoop(present, i, acc) ==
    IF i > Len(ElOrder) THEN acc
    ELSE DiscoverLoop(present, i + 1,
                      IF ElOrder[i] \in present THEN DiscoverElement(acc, ElOrder[i]) ELSE acc)

discoverFields == DiscoverLoop(StaticElements, 1, [fields |-> <<>>, configs |-> <<>>])

\* FormHandler.getFormData: a checkbox gives its checked flag, a radio its
\* value when checked and no key otherwise, any other element its value.
getFormData ==
    LET el(name) == MapGet(fields, name).element
    IN  [name \in {k \in KeySet(fields) : ElType(el(k)) = "radio" => elChecked[el(k)]} |->
            IF ElType(el(name)) = "checkbox" THEN Bool(elChecked[el(name)])
            ELSE elValue[el(name)]]

\* What is displayed: d.cls are the validation classes of each handle,
\* d.boxes the .error-message boxes of the form in document order.
Display == [cls |-> elClass, boxes |-> errorBoxes]
\* the number of boxes that stand after a handle
BoxCount(boxes, h) == Cardinality({i \in 1..Len(boxes) : boxes[i].owner = h})
RemoveAt(seq, i) == SubSeq(seq, 1, i - 1) \o SubSeq(seq, i + 1, Len(seq))
InsertAt(seq, i, e) == SubSeq(seq, 1, i - 1) \o <<e>> \o SubSeq(seq, i, Len(seq))

\* FormHandler.clearFieldValidation: drops both classes of the handle and the
\* first .error-message box found inside the handle's parent node.
clearFieldValidation(d, h) ==
    LET hits == {i \in 1..Len(d.boxes) : d.boxes[i].owner \in Within(ElParent(h))}
        first == CHOOSE i \in hits : \A j \in hits : i <= j
    IN  [cls |-> [d.cls EXCEPT ![h] = @ \ {"valid", "invalid"}],
         boxes |-> IF hits = {} THEN d.boxes ELSE RemoveAt(d.boxes, first)]

\* FormHandler.showFieldErrors: a box with one item per error, inserted right
\* after the handle.
showFieldErrors(d, h, errors) ==
    IF Len(errors) = 0 THEN d
    ELSE LET later == {i \in 1..Len(d.boxes) : ElPos(d.boxes[i].owner) >= ElPos(h)}
             at == IF later = {} THEN Len(d.boxes) + 1
                   ELSE CHOOSE i \in later : \A j \in later : i <= j
             box == [owner |-> h, items |-> [i \in 1..Len(errors) |-> errors[i].message]]
         IN  [d EXCEPT !.boxes = InsertAt(d.boxes, at, box)]

\* FormHandler.displayFieldValidation
displayFieldValidation(d, h, result) ==
    LET Marked(c) ==
            IF result.isValid
            THEN [c EXCEPT !.cls[h] = @ \cup {"valid"}]
            ELSE showFieldErrors([c EXCEPT !.cls[h] = @ \cup {"invalid"}], h, result.errors)
    IN  Marked(clearFieldValidation(d, h))

\* FormHandler.validateFieldRealtime.  A predicate that throws ends the
\* listener before anything is displayed.
validateFieldRealtime(d, h) ==
    IF ElName(h) = "" \/ ~MapHas(fields, ElName(h)) THEN d
    ELSE LET Realtime(result) == IF result.kind = "throw" THEN d
                                 ELSE displayFieldValidation(d, h, FieldResult(result))
         IN  Realtime(validateField(ElName(h), elValue[h], getFormData))

\* The listeners an event on a handle reaches: the one the constructor put on
\* the form (setupEventListeners) and one per addField call on the handle.
ListenerCount(h) == (IF h \in attached THEN 1 ELSE 0) + listeners[h]

RECURSIVE ValidateTimes(_, _, _)
ValidateTimes(n, d, h) ==
    IF n = 0 THEN d ELSE ValidateTimes(n - 1, validateFieldRealtime(d, h), h)

RECURSIVE ClearTimes(_, _, _)
ClearTimes(n, d, h) ==
    IF n = 0 THEN d ELSE ClearTimes(n - 1, clearFieldValidation(d, h), h)

\* the handle of a removed field has had an input or blur event
Handled(h) ==
    [name \in FieldNames |->
        IF removed[name].handle = h THEN [removed[name] EXCEPT !.handled = TRUE]
        ELSE removed[name]]

removeFieldKeepsRules(flds, configs, d, fieldName) ==
    IF MapHas(flds, fieldName)
    THEN [fields |-> MapDelete(flds, fieldName),
          configs |-> configs,
          d |-> clearFieldValidation(d, MapGet(flds, fieldName).element)]
    ELSE [fields |-> flds, configs |-> configs, d |-> d]

\* FormHandler.removeField
removeField(flds, configs, d, fieldName) ==
    IF MapHas(flds, fieldName)
    THEN [fields |-> MapDelete(flds, fieldName),
          configs |-> resetField(configs, fieldName),
          d |-> clearFieldValidation(d, MapGet(flds, fieldName).element)]
    ELSE [fields |-> flds, configs |-> configs, d |-> d]

\* configurations addField is given; CfgNoRules has an empty rule list
CfgNoRules == [rules |-> <<>>]
HandlerConfigs == {CfgRequired, CfgNoRules}
\* what the user types into a text input, and the input the user types into
Typed == {Str(<<>>), Str(<<"a">>)}
TypedInto == {"h2"}
\* values of direct validateField calls while the handler runs
HandlerValues == {Str(<<>>), Str(<<"a">>)}
\* the handles addField is called with
AddedHandles == {"h1", "h2"}

\* form.appendChild(element): a new element is put at the end of the form
AppendElement(h) ==
    /\ event = NoEvent
    /\ h \notin attached
    /\ attached' = attached \cup {h}
    /\ Forget
    /\ UNCHANGED <<engineVars, elValue, elChecked, elClass, errorBoxes, event, handlerVars,
                   registrations, removed>>
    /\ UNCHANGED other

\* FormHandler.addField, given a handle of the form under the handle's name
AddField(fieldName, h, config) ==
    /\ event = NoEvent
    /\ h \in attached
    /\ ElName(h) = fieldName
    /\ listeners[h] < MaxListeners
    /\ fields' = MapSet(fields, fieldName, [element |-> h, config |-> config])
    /\ fieldConfigs' = IF Len(config.rules) > 0
                       THEN configureField(fieldConfigs, fieldName, config)
                       ELSE fieldConfigs
    /\ listeners' = [listeners EXCEPT ![h] = @ + 1]
    /\ removed' = [removed EXCEPT ![fieldName] = NotRemoved]
    /\ Forget
    /\ UNCHANGED <<validationRules, errorMessages, registrations, domVars,
                   validationResults, hooks>>
    /\ UNCHANGED other

RemoveField(fieldName) ==
    /\ event = NoEvent
    /\ LET r == removeField(fields, fieldConfigs, Display, fieldName)
       IN  /\ fields' = r.fields
           /\ fieldConfigs' = r.configs
           /\ elClass' = r.d.cls
           /\ errorBoxes' = r.d.boxes
    /\ removed' = IF MapHas(fields, fieldName)
                  THEN [removed EXCEPT ![fieldName] =
                           [handle |-> MapGet(fields, fieldName).element, handled |-> FALSE,
                            boxes |-> BoxCount(errorBoxes', MapGet(fields, fieldName).element)]]
                  ELSE removed
    /\ Forget
    /\ UNCHANGED <<validationRules, errorMessages, registrations, attached, elValue,
                   elChecked, event, validationResults, listeners, hooks>>
    /\ UNCHANGED other

\* the user edits a text input: the value changes and an input event is due
UserTypes(h, v) ==
    /\ event = NoEvent
    /\ h \in attached
    /\ ElType(h) # "checkbox"
    /\ v # elValue[h]
    /\ elValue' = [elValue EXCEPT ![h] = v]
    /\ event' = [type |-> "input", target |-> h]
    /\ Forget
    /\ UNCHANGED <<engineVars, attached, elChecked, elClass, errorBoxes, handlerVars,
                   registrations, removed>>
    /\ UNCHANGED other

\* an event the listeners have handled is remembered with its handle and
\* with what the page displayed when it arrived
Listened(type, h) ==
    /\ call' = [op |-> type, fieldName |-> ElName(h), value |-> elValue[h], formData |-> <<>>,
                fresh |-> TRUE, target |-> h, before |-> Display]
    /\ ret' = NoResult
    /\ prev' = NoPrev

\* the input listeners: form.addEventListener('input') and those of addField
DispatchInput ==
    /\ event.type = "input"
    /\ \E d \in {ValidateTimes(ListenerCount(event.target), Display, event.target)} :
           Len(d.boxes) <= MaxBoxes /\ elClass' = d.cls /\ errorBoxes' = d.boxes
    /\ event' = NoEvent
    /\ removed' = Handled(event.target)
    /\ Listened("input", event.target)
    /\ UNCHANGED <<engineVars, attached, elValue, elChecked, handlerVars, registrations>>
    /\ UNCHANGED other

\* the blur listeners
Blur(h) ==
    /\ event = NoEvent
    /\ h \in attached
    /\ \E d \in {ValidateTimes(ListenerCount(h), Display, h)} :
           Len(d.boxes) <= MaxBoxes /\ elClass' = d.cls /\ errorBoxes' = d.boxes
    /\ removed' = Handled(h)
    /\ Listened("blur", h)
    /\ UNCHANGED <<engineVars, attached, elValue, elChecked, event, handlerVars, registrations>>
    /\ UNCHANGED other

\* the focus listeners
Focus(h) ==
    /\ event = NoEvent
    /\ h \in attached
    /\ \E d \in {ClearTimes(ListenerCount(h), Display, h)} :
           elClass' = d.cls /\ errorBoxes' = d.boxes
    /\ Listened("focus", h)
    /\ UNCHANGED <<engineVars, attached, elValue, elChecked, event, handlerVars,
                   registrations, removed>>
    /\ UNCHANGED other

\* a direct call of the engine while no event is being handled
HandlerValidateField(fieldName, value) ==
    /\ event = NoEvent
    /\ ValidateField(fieldName, value, getFormData)

\* new FormHandler(selector) on the page: setupEventListeners, discoverFields
InitHandler ==
    /\ validationRules = DefaultRules(Len(BuiltinRules))
    /\ errorMessages = DefaultMessages(Len(BuiltinRules))
    /\ fieldConfigs = discoverFields.configs
    /\ attached = StaticElements
    /\ elValue = [h \in Elements |-> IF ElType(h) = "checkbox" THEN CheckboxValue ELSE Str(<<>>)]
    /\ elChecked = [h \in Elements |-> FALSE]
    /\ elClass = [h \in Elements |-> {}]
    /\ errorBoxes = <<>>
    /\ fields = discoverFields.fields
    /\ validationResults = NoResult
    /\ listeners = [h \in Elements |-> 0]
    /\ hooks = <<>>
    /\ event = NoEvent
    /\ removed = [name \in FieldNames |-> NotRemoved]
    /\ other = NoInstance
    /\ call = NoCall
    /\ ret = NoResult
    /\ prev = NoPrev
    /\ registrations =
         [name \in RegNames |->
            IF \E i \in 1..Len(BuiltinRules) : BuiltinRules[i] = name
            THEN [count |-> 1, validator |-> name, message |-> Msg(DefaultMessage(name))]
            ELSE [count |-> 0, validator |-> "", message |-> NoMessage]]

NextHandler ==
    \/ \E h \in Elements : AppendElement(h)
    \/ \E fieldName \in FieldNames, h \in AddedHandles, config \in HandlerConfigs :
          AddField(fieldName, h, config)
    \/ \E fieldName \in FieldNames : RemoveField(fieldName)
    \/ \E h \in TypedInto, v \in Typed : UserTypes(h, v)
    \/ DispatchInput
    \/ \E h \in Elements : Blur(h)
    \/ \E h \in Elements : Focus(h)
    \/ \E fieldName \in FieldNames, value \in HandlerValues :
          HandlerValidateField(fieldName, value)

SpecHandler == InitHandler /\ [][NextHandler]_vars

(***************************************************************************)
(* FormHandler: submit and validateAll                                     *)
(***************************************************************************)
Only(S) == CHOOSE x \in S : TRUE

\* FormHandler.displayValidationResults: Object.entries(result.fields), each
\* field displayed on the page the one before it left
RECURSIVE DisplayLoop(_, _, _)
DisplayLoop(i, flds, d) ==
    IF i > Len(flds) THEN d
    ELSE Only({DisplayLoop(i + 1, flds, next) :
                 next \in {IF MapHas(fields, flds[i].key)
                           THEN displayFieldValidation(d, MapGet(fields, flds[i].key).element,
                                                       flds[i].val)
                           ELSE d}})

displayValidationResults(d, validationResult) == DisplayLoop(1, validationResult.fields, d)

\* a call of onFormValid(formData) or onFormInvalid(validationResult)
HookCall(hook, formData, result) == [hook |-> hook, formData |-> formData, result |-> result]

\* the form data and the result handleSubmit computes, each computed once:
\* const formData = this.getFormData(); const result = validateForm(formData)
Snapshot == {<<formData, validateForm(formData)>> : formData \in {getFormData}}

\* handleSubmit with slips: onFormInvalid is called whatever the result; the
\* fields that already display a state are not displayed anew
handleSubmitAlwaysInvalid(d) ==
    LET Outcome(formData, result) ==
            [formData |-> formData, result |-> result,
             d |-> displayValidationResults(d, result),
             hooks |-> (IF result.isValid
                        THEN <<HookCall("onFormValid", formData, NoResult)>>
                        ELSE <<>>) \o <<HookCall("onFormInvalid", <<>>, result)>>]
    IN  Only({Outcome(s[1], s[2]) : s \in Snapshot})

handleSubmitKeepsDisplayed(d) ==
    LET shown == {k \in KeySet(fields) : d.cls[MapGet(fields, k).element] # {}}
        Outcome(formData, result) ==
            [formData |-> formData, result |-> result,
             d |-> DisplayLoop(1, SelectSeq(result.fields, LAMBDA e : e.key \notin shown), d),
             hooks |-> IF result.isValid
                       THEN <<HookCall("onFormValid", formData, NoResult)>>
                       ELSE <<HookCall("onFormInvalid", <<>>, result)>>]
    IN  Only({Outcome(s[1], s[2]) : s \in Snapshot})

\* FormHandler.handleSubmit.  When a predicate throws, validateForm ends the
\* call before anything is stored, displayed or passed to a hook.
handleSubmit(d) ==
    LET Outcome(formData, result) ==
            IF result.kind = "throw"
            THEN [formData |-> formData, result |-> result, d |-> d, hooks |-> <<>>]
            ELSE [formData |-> formData, result |-> result,
                  d |-> displayValidationResults(d, result),
                  hooks |-> IF result.isValid
                            THEN <<HookCall("onFormValid", formData, NoResult)>>
                            ELSE <<HookCall("onFormInvalid", <<>>, result)>>]
    IN  Only({Outcome(s[1], s[2]) : s \in Snapshot})

\* the submit listener of setupEventListeners: preventDefault, handleSubmit.
\* `hooks` names the hooks this submit has called, call.hooks has their
\* arguments too.
Submit ==
    /\ event = NoEvent
    /\ \E r \in {handleSubmit(Display)} :
           /\ Len(r.d.boxes) <= MaxBoxes
           /\ validationResults' = IF r.result.kind = "throw" THEN validationResults
                                   ELSE r.result
           /\ elClass' = r.d.cls
           /\ errorBoxes' = r.d.boxes
           /\ hooks' = [i \in 1..Len(r.hooks) |-> r.hooks[i].hook]
           /\ call' = [op |-> "submit", fieldName |-> "", value |-> Undef,
                       formData |-> r.formData, fresh |-> TRUE, before |-> elClass,
                       hooks |-> r.hooks]
           /\ ret' = r.result
    /\ prev' = NoPrev
    /\ UNCHANGED <<engineVars, attached, elValue, elChecked, event, fields, listeners,
                   registrations, removed>>
    /\ UNCHANGED other

\* FormHandler.validateAll: getFormData, validateForm, displayValidationResults
\* as handleSubmit has them, and no hook is called
ValidateAll ==
    /\ event = NoEvent
    /\ \E r \in {handleSubmit(Display)} :
           /\ Len(r.d.boxes) <= MaxBoxes
           /\ validationResults' = IF r.result.kind = "throw" THEN validationResults
                                   ELSE r.result
           /\ elClass' = r.d.cls
           /\ errorBoxes' = r.d.boxes
           /\ call' = [op |-> "validateAll", fieldName |-> "", value |-> Undef,
                       formData |-> r.formData, fresh |-> TRUE, before |-> elClass]
           /\ ret' = r.result
    /\ prev' = NoPrev
    /\ UNCHANGED <<engineVars, attached, elValue, elChecked, event, fields, listeners, hooks,
                   registrations, removed>>
    /\ UNCHANGED other

\* the inputs the user types into, leaves and enters before a submit, and
\* the field the page's script configures through the validator
SubmitTyped == {"h1", "h2"}
SubmitConfigured == {"x"}

NextSubmit ==
    \/ \E h \in Elements : AppendElement(h)
    \/ \E config \in HandlerConfigs : AddField("x", "h2", config)
    \/ \E fieldName \in SubmitConfigured : ConfigureField(fieldName, CfgRequired)
    \/ \E h \in SubmitTyped, v \in Typed : UserTypes(h, v)
    \/ DispatchInput
    \/ \E h \in SubmitTyped : Blur(h)
    \/ \E h \in SubmitTyped : Focus(h)
    \/ Submit
    \/ ValidateAll

SpecSubmit == InitHandler /\ [][NextSubmit]_vars

(***************************************************************************)
(* The engine with the rule references whose messages and cross-field      *)
(* checks are of interest, and direct calls of formatErrorMessage.         *)
(***************************************************************************)
\* { name: 'confirmPassword', params: { matchField: 'x' } }
CfgConfirm ==
    [rules |-> <<RefObj("confirmPassword", <<Param("matchField", Str(<<"x">>))>>, NoMessage)>>]
\* references with a message override, with an empty one and with none
CfgMessages ==
    [rules |-> <<Ref("required"),
                 RefObj("minLength", <<Param("length", Num(3))>>, Msg(<<"Too short">>)),
                 RefObj("email", <<>>, Msg(<<>>)),
                 RefObj("age", <<Param("min", Num(18))>>, NoMessage),
                 RefObj("custom", <<Param("min", Num(2)), Param("max", Num(9))>>, NoMessage)>>]
\* a rule that passes for a short text, declared between two that fail
CfgOrder ==
    [rules |-> <<RefObj("minLength", <<Param("length", Num(3))>>, NoMessage),
                 Ref("required"), Ref("email")>>]
RuleConfigs == {CfgConfirm, CfgMessages, CfgOrder}
RuleFields == {"y"}

\* what `custom` is registered with: a template that names {min} twice, and
\* no template at all
RuleTemplates ==
    {[validator |-> "inventory",
      message |-> Msg(<<"{", "m", "i", "n", "}", " to ", "{", "m", "a", "x", "}",
                        ", at least ", "{", "m", "i", "n", "}">>)],
     [validator |-> "inventory", message |-> NoMessage]}

\* the arguments of direct formatErrorMessage calls
FormatRules == {"minLength", "age", "required", "custom"}
FormatParams ==
    {<<>>,
     <<Param("length", Num(5))>>,
     <<Param("length", Num(5)), Param("max", Num(65))>>,
     <<Param("min", Num(18))>>,
     <<Param("min", Num(0)), Param("max", Str(<<"a">>))>>,
     <<Param("max", Num(65)), Param("min", Num(18))>>,
     <<Param("min", Null), Param("max", Num(65))>>,
     <<Param("min", Str(<<>>)), Param("max", Undef)>>}

FormatErrorMessage(ruleName, params) ==
    /\ call' = [op |-> "formatErrorMessage", fieldName |-> "", value |-> Undef,
                formData |-> <<>>, fresh |-> TRUE, ruleName |-> ruleName, params |-> params]
    /\ ret' = [kind |-> "return", text |-> formatErrorMessage(ruleName, params)]
    /\ prev' = NoPrev
    /\ UNCHANGED <<engineVars, registrations, domVars, handlerVars, removed>>
    /\ UNCHANGED other

NextRules ==
    \/ \E rule \in RuleTemplates : AddValidationRule("custom", rule)
    \/ \E fieldName \in RuleFields, config \in RuleConfigs : ConfigureField(fieldName, config)
    \/ \E fieldName \in RuleFields, value \in Values, formData \in FormDatas :
          ValidateField(fieldName, value, formData)
    \/ \E ruleName \in FormatRules, params \in FormatParams :
          FormatErrorMessage(ruleName, params)

SpecRules == Init /\ [][NextRules]_vars

(***************************************************************************)
(* The engine and the handler given structurally malformed input           *)
(***************************************************************************)
MalformedConfigs == {CfgMissingRules, CfgStringRules}
GivenConfigs == {CfgRequired} \cup MalformedConfigs
GivenFields == {"x", "7"}
\* the objects configureFields is given, as Object.entries lists them
GivenMaps ==
    {<<[key |-> "7", val |-> CfgMissingRules], [key |-> "x", val |-> CfgRequired]>>,
     <<[key |-> "7", val |-> CfgRequired], [key |-> "x", val |-> CfgRequired]>>}

\* config.rules && config.rules.length > 0
HasRules(config) ==
    IF IsMalformed(config) THEN config.malformed = "string" /\ config.length > 0
    ELSE Len(config.rules) > 0

\* FormHandler.addField(fieldName, undefined, config): the field and its
\* configuration are stored, then element.addEventListener throws.
AddFieldWithoutHandle(fieldName, config) ==
    /\ event = NoEvent
    /\ fields' = MapSet(fields, fieldName, [element |-> "none", config |-> config])
    /\ fieldConfigs' = IF HasRules(config)
                       THEN configureField(fieldConfigs, fieldName, config)
                       ELSE fieldConfigs
    /\ call' = [op |-> "addField", fieldName |-> fieldName, value |-> Undef,
                formData |-> <<>>, fresh |-> TRUE]
    /\ ret' = Thrown(<<>>, <<>>)
    /\ prev' = NoPrev
    /\ UNCHANGED <<validationRules, errorMessages, registrations, domVars,
                   validationResults, listeners, hooks, removed>>
    /\ UNCHANGED other

NextMalformed ==
    \/ \E fieldName \in GivenFields, config \in GivenConfigs : ConfigureField(fieldName, config)
    \/ \E entries \in GivenMaps : ConfigureFields(entries)
    \/ \E fieldName \in GivenFields : ResetField(fieldName)
    \/ \E fieldName \in GivenFields, config \in GivenConfigs :
          AddFieldWithoutHandle(fieldName, config)
    \/ \E fieldName \in FieldNames, value \in HandlerValues, formData \in FieldFormDatas :
          ValidateField(fieldName, value, formData)
    \/ \E formData \in FormDatas : ValidateForm(formData)

SpecMalformed == InitHandler /\ [][NextMalformed]_vars

(***************************************************************************)
(* Properties of validateField                                             *)
(***************************************************************************)
FieldCall == call.op = "validateField" /\ call.fresh
FieldCallReturned == FieldCall /\ ret.kind = "return"
\* the rule references of the field the last call validated
CalledRules ==
    IF MapHas(fieldConfigs, call.fieldName) THEN MapGet(fieldConfigs, call.fieldName).rules
    ELSE <<>>
Registered(name) == MapHas(validationRules, name)
\* the positions of a sequence that satisfy a test, as a set
Positions(seq, Test(_)) == {i \in 1..Len(seq) : Test(seq[i])}

\* C1: a field without configuration (never configured, or removed by
\* resetField or clearAll) is valid with no errors, whatever the value and
\* the form data.
C1_UnconfiguredFieldIsValid ==
    (FieldCall /\ ~MapHas(fieldConfigs, call.fieldName))
        => (ret.kind = "return" /\ ret.isValid /\ ret.errors = <<>>)

\* an empty value, which `required` would reject, validated for a field
\* without configuration while the engine holds the configuration of another
C1_Witness ==
    /\ FieldCall
    /\ ~MapHas(fieldConfigs, call.fieldName)
    /\ call.value = Str(<<>>)
    /\ fieldConfigs # <<>>
    /\ ret.isValid

\* C2: a call that returns has invoked the predicate of every rule reference
\* whose rule is registered, in the declared order, also after one of them
\* failed, and it reports as many errors as predicates returned false.
C2_EveryRuleEvaluated ==
    FieldCallReturned =>
        /\ {ret.trace[k].index : k \in 1..Len(ret.trace)}
             = {i \in 1..Len(CalledRules) : Registered(CalledRules[i].name)}
        /\ \A k \in 1..Len(ret.trace) : \A j \in 1..Len(ret.trace) :
              k < j => ret.trace[k].index < ret.trace[j].index
        /\ Len(ret.errors) = Cardinality(Positions(ret.trace, LAMBDA e : e.outcome = "false"))

\* two rules failed and a later one was still invoked after the first failure
C2_Witness ==
    /\ FieldCallReturned
    /\ Len(ret.errors) >= 2
    /\ \E k \in 1..Len(ret.trace) : \E j \in 1..Len(ret.trace) :
          k < j /\ ret.trace[k].outcome = "false"

\* C3: a rule reference whose name is not registered is skipped: it gives no
\* error, a warning is emitted for it, the references after it are still
\* evaluated, and a field with nothing but unknown names is valid.
C3_UnknownRuleSkipped ==
    FieldCallReturned =>
        LET unknown == {i \in 1..Len(CalledRules) : ~Registered(CalledRules[i].name)}
        IN  /\ \A k \in 1..Len(ret.errors) : Registered(ret.errors[k].rule)
            /\ Len(ret.warnings) = Cardinality(unknown)
            /\ \A i \in unknown : \E k \in 1..Len(ret.warnings) :
                  ret.warnings[k] = CalledRules[i].name
            /\ \A i \in unknown : \A j \in (i + 1)..Len(CalledRules) :
                  Registered(CalledRules[j].name)
                      => \E k \in 1..Len(ret.trace) : ret.trace[k].index = j
            /\ (unknown = 1..Len(CalledRules)) => (ret.isValid /\ ret.errors = <<>>)

\* an unknown name between known ones: warned about, and a rule declared
\* after it failed
C3_Witness ==
    /\ FieldCallReturned
    /\ ret.warnings = <<"doesNotExist">>
    /\ \E i \in 1..Len(CalledRules) : \E k \in 1..Len(ret.trace) :
          /\ ~Registered(CalledRules[i].name)
          /\ ret.trace[k].index > i
          /\ ret.trace[k].outcome = "false"

(***************************************************************************)
(* Properties of the registry                                              *)
(***************************************************************************)
\* C4: once a name was registered twice, the registry holds the predicate
\* and the template of the second registration, every validation that
\* references the name invokes that predicate and reports that template,
\* and the name is listed once by getAvailableRules.
C4_LastRegistrationWins ==
    \A name \in RegNames :
        registrations[name].count >= 2 =>
            /\ MapGet(validationRules, name) = registrations[name].validator
            /\ MapGet(errorMessages, name) = registrations[name].message
            /\ Cardinality(Positions(getAvailableRules, LAMBDA n : n = name)) = 1
            /\ (call.op = "getAvailableRules"
                  => Cardinality(Positions(ret.names, LAMBDA n : n = name)) = 1)
            /\ ((call.op \in {"validateField", "validateForm"} /\ call.fresh) =>
                  /\ \A k \in 1..Len(ret.trace) :
                        ret.trace[k].rule = name =>
                            ret.trace[k].outcome =
                               Invoke(registrations[name].validator,
                                      IF call.op = "validateField" THEN call.value
                                      ELSE Prop(call.formData, ret.trace[k].field),
                                      MapGet(fieldConfigs, ret.trace[k].field).rules[ret.trace[k].index].params,
                                      call.formData)
                  /\ \A k \in 1..Len(ret.errors) :
                        (ret.errors[k].rule = name /\ call.op = "validateField")
                            => ret.errors[k].message
                                 = FormatLoop(registrations[name].message.text, ret.errors[k].params, 1))

\* `email` registered a second time with the inventory predicate: an address
\* the built-in rule accepts is now rejected, with the second template
C4_Witness ==
    /\ registrations["email"].count = 2
    /\ registrations["email"].validator = "inventory"
    /\ FieldCallReturned
    /\ call.value = Str(<<"a", "@", "b", ".", "c">>)
    /\ \E k \in 1..Len(ret.errors) :
          /\ ret.errors[k].rule = "email"
          /\ ret.errors[k].message = <<"Inventory quantity must be between 0 and 999,999">>

\* C5: with a rule registered and a field configured with that rule alone,
\* a value the predicate accepts gives {isValid: true, errors: []} and a
\* value it rejects gives exactly one failure, carrying the rule's name.
C5_RoundTrip ==
    \A name \in RegNames :
        (/\ FieldCall
         /\ registrations[name].count >= 1
         /\ Len(CalledRules) = 1
         /\ CalledRules[1].name = name) =>
            LET outcome == Invoke(registrations[name].validator, call.value,
                                  CalledRules[1].params, call.formData)
            IN  /\ outcome = "true"
                    => (ret.kind = "return" /\ ret.isValid /\ ret.errors = <<>>)
                /\ outcome = "false"
                    => (/\ ret.kind = "return"
                        /\ ~ret.isValid
                        /\ Len(ret.errors) = 1
                        /\ ret.errors[1].rule = name)

\* the registered predicate rejected the value: one failure for the rule
C5_Witness ==
    /\ FieldCallReturned
    /\ registrations["custom"].count >= 1
    /\ Len(CalledRules) = 1
    /\ CalledRules[1].name = "custom"
    /\ Len(ret.errors) = 1
    /\ ret.errors[1].rule = "custom"

\* the registered predicate accepted the value
C5_WitnessAccepted ==
    /\ FieldCallReturned
    /\ registrations["custom"].validator = "inventory"
    /\ Len(CalledRules) = 1
    /\ CalledRules[1].name = "custom"
    /\ call.value = Num(25)
    /\ ret.isValid

(***************************************************************************)
(* Properties of validateForm                                              *)
(***************************************************************************)
FormCall == call.op = "validateForm" /\ call.fresh
FormCallReturned == FormCall /\ ret.kind = "return"

\* C6: two validateForm calls with the same snapshot, and no registration or
\* configuration between them, give the same isValid, fields and errors.
C6_ValidateFormIdempotent ==
    (/\ call.op = "validateForm"
     /\ ret.kind = "return"
     /\ prev.set
     /\ prev.ret.kind = "return"
     /\ prev.formData = call.formData) =>
        /\ ret.isValid = prev.ret.isValid
        /\ ret.fields = prev.ret.fields
        /\ ret.errors = prev.ret.errors

\* C7: the fields of a form result are exactly the configured fields, once
\* each, whatever the keys of formData; a configured field that formData
\* lacks is validated with the absent value.
C7_FieldsAreConfiguredFields ==
    FormCallReturned =>
        /\ KeySet(ret.fields) = KeySet(fieldConfigs)
        /\ Len(ret.fields) = Len(fieldConfigs)
        /\ \A i \in 1..Len(ret.fields) :
              ret.fields[i].key \notin DOMAIN call.formData
                  => ret.fields[i].val
                       = FieldResult(validateField(ret.fields[i].key, Undef, call.formData))

\* the snapshot has the keys x and y, the only configured field is 7: the
\* result has 7 alone, failed by `required` on the absent value
C7_Witness ==
    /\ FormCallReturned
    /\ call.formData = FdA
    /\ MapKeys(ret.fields) = <<"7">>
    /\ ~ret.fields[1].val.isValid

\* C8: a form result is valid exactly when the result of every configured
\* field is.
C8_FormValidIffAllFieldsValid ==
    FormCallReturned =>
        (ret.isValid <=> \A name \in KeySet(fieldConfigs) :
                             MapHas(ret.fields, name) /\ MapGet(ret.fields, name).isValid)

\* the field configured first is invalid, the one configured last is valid
C8_Witness ==
    /\ FormCallReturned
    /\ Len(fieldConfigs) = 2
    /\ ~MapGet(ret.fields, fieldConfigs[1].key).isValid
    /\ MapGet(ret.fields, fieldConfigs[2].key).isValid
    /\ ~ret.isValid

\* every failure of every field, tagged with the field, in the order of the
\* fields mapping
RECURSIVE Flattened(_)
Flattened(flds) ==
    IF flds = <<>> THEN <<>>
    ELSE [k \in 1..Len(Head(flds).val.errors) |->
            [field |-> Head(flds).key,
             rule |-> Head(flds).val.errors[k].rule,
             message |-> Head(flds).val.errors[k].message,
             params |-> Head(flds).val.errors[k].params]] \o Flattened(Tail(flds))

RECURSIVE ErrorCount(_)
ErrorCount(flds) ==
    IF flds = <<>> THEN 0 ELSE Len(Head(flds).val.errors) + ErrorCount(Tail(flds))

\* C9: the errors of a form result are the failures of its fields, each
\* tagged with its field, concatenated in the order of the fields mapping:
\* as many as the fields have together, none lost and none twice.
C9_ErrorsAreFlattenedFields ==
    FormCallReturned =>
        /\ ret.errors = Flattened(ret.fields)
        /\ Len(ret.errors) = ErrorCount(ret.fields)

\* two failures of x and one of 7; 7 was configured after x and comes first
C9_Witness ==
    /\ FormCallReturned
    /\ Len(ret.fields) = 2
    /\ Len(ret.errors) = 3
    /\ MapKeys(fieldConfigs) = <<"x", "7">>
    /\ MapKeys(ret.fields) = <<"7", "x">>
    /\ ret.errors[1].field = "7"

(***************************************************************************)
(* Properties of FormHandler.addField and removeField                      *)
(***************************************************************************)
EmptyValues == {Str(<<>>)}
\* the field is tracked as addField(name, handle, {rules: ['required']}) left it
AddedRequired(name) ==
    MapHas(fields, name) /\ MapGet(fields, name).config = CfgRequired

C10_WitnessAdded ==
    /\ AddedRequired("x")
    /\ MapGet(fields, "x").element = "h2"
    /\ FieldCallReturned
    /\ call.fieldName = "x"
    /\ call.value = Str(<<>>)
    /\ "invalid" \in elClass["h2"]
    /\ \E i \in 1..Len(errorBoxes) : errorBoxes[i].owner = "h2"

(***************************************************************************)
(* Properties of the confirmPassword rule and of the failure messages      *)
(***************************************************************************)
\* the last call validated a field whose only rule is confirmPassword{matchField: x}
ConfirmCall ==
    /\ FieldCallReturned
    /\ MapHas(fieldConfigs, call.fieldName)
    /\ MapGet(fieldConfigs, call.fieldName) = CfgConfirm
OneConfirmFailure == Len(ret.errors) = 1 /\ ret.errors[1].rule = "confirmPassword"

\* C11 as stated: a field configured with confirmPassword{matchField} is valid
\* if and only if its value equals formData[matchField]; when it differs the
\* result has exactly one failure, of confirmPassword.
C11_ConfirmPasswordIffEqual ==
    ConfirmCall =>
        /\ ret.isValid <=> (call.value = Prop(call.formData, "x"))
        /\ (call.value # Prop(call.formData, "x")) => OneConfirmFailure

\* C11, as the code has it: the rule is value-optional like the other
\* built-in rules.  The field is valid if and only if its value is empty
\* (falsy) or equals formData[matchField]; otherwise the result has exactly
\* one failure, of confirmPassword.
C11_ConfirmPasswordOptional ==
    ConfirmCall =>
        /\ ret.isValid <=> (Falsy(call.value) \/ call.value = Prop(call.formData, "x"))
        /\ ~ret.isValid => OneConfirmFailure

\* a value that differs from the other field was rejected, with one failure
C11_Witness ==
    /\ ConfirmCall
    /\ call.value = Str(<<"a", "@", "b", ".", "c">>)
    /\ Prop(call.formData, "x") = Str(<<"a">>)
    /\ OneConfirmFailure

\* the index of the reference the k-th failure of the last result stems from
FailedRefs == SelectSeq(ret.trace, LAMBDA e : e.outcome = "false")
RefParams(rule) == IF rule.isString THEN <<>> ELSE rule.params
\* the failures are those of the predicates that returned false, in order,
\* each with the name and the params of its reference
FailuresCarryReference ==
    /\ Len(ret.errors) = Len(FailedRefs)
    /\ \A k \in 1..Len(ret.errors) :
          LET rule == CalledRules[FailedRefs[k].index]
          IN  /\ ret.errors[k].rule = rule.name
              /\ ret.errors[k].params = RefParams(rule)

\* C12 as stated: the message of every failure is the message override of
\* its reference whenever an override is given, and otherwise the default
\* template formatted with the reference's params; the failure carries the
\* rule name and the params of the reference.
C12_MessageIsOverrideWhenGiven ==
    FieldCallReturned =>
        /\ FailuresCarryReference
        /\ \A k \in 1..Len(ret.errors) :
              LET rule == CalledRules[FailedRefs[k].index]
              IN  ret.errors[k].message =
                     IF ~rule.isString /\ rule.message.given THEN rule.message.text
                     ELSE formatErrorMessage(rule.name, RefParams(rule))

\* C12, as the code has it: the override is used when it is a non-empty
\* text; an empty override counts as none and the formatted default template
\* is reported.
C12_MessageIsNonEmptyOverride ==
    FieldCallReturned =>
        /\ FailuresCarryReference
        /\ \A k \in 1..Len(ret.errors) :
              LET rule == CalledRules[FailedRefs[k].index]
              IN  ret.errors[k].message =
                     IF ~rule.isString /\ rule.message.given /\ rule.message.text # <<>>
                     THEN rule.message.text
                     ELSE formatErrorMessage(rule.name, RefParams(rule))

\* one result with an overridden message, the default in place of an empty
\* override, and a formatted default
C12_Witness ==
    /\ FieldCallReturned
    /\ CalledRules = CfgMessages.rules
    /\ Len(ret.errors) >= 3
    /\ ret.errors[1].message = <<"Too short">>
    /\ ret.errors[2].message = <<"Please enter a valid email address">>
    /\ ret.errors[3].rule = "age"
    /\ ret.errors[3].params = <<Param("min", Num(18))>>

(***************************************************************************)
(* Properties of formatErrorMessage                                        *)
(***************************************************************************)
FormatCall == call.op = "formatErrorMessage" /\ ret.kind = "return"
\* the default template of a rule, or the generic text
TemplateOf(ruleName) ==
    IF MapHas(errorMessages, ruleName) /\ MsgTruthy(MapGet(errorMessages, ruleName))
    THEN MapGet(errorMessages, ruleName).text
    ELSE <<"Invalid value">>
\* params[key] is a value to put in: not null, undefined or ''
Usable(params, i) ==
    ~(params[i].val.t \in {"null", "undefined"} \/ params[i].val = Str(<<>>))
StartsWith(text, pat) == Len(text) >= Len(pat) /\ SubSeq(text, 1, Len(pat)) = pat
\* the template read once from left to right, every {key} of a usable key
\* written as the text of its value
RECURSIVE Substituted(_, _)
Substituted(text, params) ==
    IF text = <<>> THEN <<>>
    ELSE LET hits == {i \in 1..Len(params) :
                         Usable(params, i) /\ StartsWith(text, Placeholder(params[i].key))}
         IN  IF hits = {} THEN <<Head(text)>> \o Substituted(Tail(text), params)
             ELSE LET i == CHOOSE j \in hits : TRUE
                  IN  ToText(params[i].val) \o
                      Substituted(SubSeq(text, Len(Placeholder(params[i].key)) + 1, Len(text)),
                                  params)
\* how often a text occurs in another
RECURSIVE Occurrences(_, _)
Occurrences(text, pat) ==
    IF Len(text) < Len(pat) THEN 0
    ELSE (IF StartsWith(text, pat) THEN 1 ELSE 0) + Occurrences(Tail(text), pat)

C14_UnmatchedLeftAlone ==
    FormatCall =>
        LET template == TemplateOf(call.ruleName)
            usable == {call.params[i].key : i \in {j \in 1..Len(call.params) : Usable(call.params, j)}}
        IN  /\ (\A i \in 1..Len(call.params) :
                    Occurrences(template, Placeholder(call.params[i].key)) = 0) =>
                        ret.text = template
            /\ \A k \in {"length", "value", "min", "max"} \ usable :
                    Occurrences(ret.text, Placeholder(k)) = Occurrences(template, Placeholder(k))

\* the age template given a null min: {min} stays, {max} is filled in
C14_Witness ==
    /\ FormatCall
    /\ call.ruleName = "age"
    /\ call.params = <<Param("min", Null), Param("max", Num(65))>>
    /\ ret.text = <<"Please enter a valid age between ", "{", "m", "i", "n", "}",
                    " and ", "6", "5">>

(***************************************************************************)
(* Properties of the error handling                                        *)
(***************************************************************************)
\* C15: a predicate that throws during validateField or validateForm is
\* caught: the call returns a result, the result has a failure for the rule
\* that threw, and the references after it are still evaluated.
C15_ThrowingPredicateIsCaught ==
    (call.op \in {"validateField", "validateForm"} /\ call.fresh) =>
        /\ ret.kind = "return"
        /\ \A k \in 1..Len(ret.trace) :
              ret.trace[k].outcome = "throw" =>
                 \E e \in 1..Len(ret.errors) : ret.errors[e].rule = ret.trace[k].rule

\* C16: a configuration whose rules is missing or no list, and an addField
\* without a handle, are rejected where they are given: no stored
\* configuration is malformed, no tracked field lacks its handle, and an
\* addField call that ended with an error has left the field set and the
\* configuration store as they were.
C16_MalformedInputRejected ==
    /\ \A i \in 1..Len(fieldConfigs) : ~IsMalformed(fieldConfigs[i].val)
    /\ \A i \in 1..Len(fields) : fields[i].val.element # "none"

(***************************************************************************)
(* Properties of submit and validateAll                                    *)
(***************************************************************************)
SubmitCall == call.op = "submit"

\* C17: every submit calls exactly one of onFormValid and onFormInvalid, once:
\* onFormValid with the form data snapshot when the result of the submit is
\* valid, onFormInvalid with the result when it is not.
C17_ExactlyOneHook ==
    SubmitCall =>
        /\ ret.kind = "return"
        /\ Len(call.hooks) = 1
        /\ hooks = <<call.hooks[1].hook>>
        /\ ret.isValid => call.hooks[1] = HookCall("onFormValid", call.formData, NoResult)
        /\ ~ret.isValid => call.hooks[1] = HookCall("onFormInvalid", <<>>, ret)

\* a submit of a form with a configured field whose result is valid
C17_Witness ==
    /\ SubmitCall
    /\ ret.kind = "return"
    /\ ret.isValid
    /\ Len(ret.fields) > 0
    /\ hooks = <<"onFormValid">>

\* the valid/invalid state a handle displays
Shown(h) == elClass[h] \cap {"valid", "invalid"}

\* C18: a submit computes the result of every configured field anew from the
\* one snapshot of the values it took: the stored result is the one of this
\* submit, it has a result for each configured field and no other, each is
\* what validateField gives for the snapshot, and every tracked field shows
\* the state of its new result, whatever it showed before.
C18_SubmitRecomputesEveryField ==
    SubmitCall =>
        /\ call.formData = getFormData
        /\ validationResults = ret
        /\ KeySet(ret.fields) = KeySet(fieldConfigs)
        /\ \A i \in 1..Len(ret.fields) :
              LET name == ret.fields[i].key
              IN  /\ ret.fields[i].val =
                        FieldResult(validateField(name, Prop(call.formData, name),
                                                  call.formData))
                  /\ MapHas(fields, name) =>
                        Shown(MapGet(fields, name).element) =
                            IF ret.fields[i].val.isValid THEN {"valid"} ELSE {"invalid"}

\* a submit that finds one field pristine and another showing valid, and
\* leaves both invalid
C18_Witness ==
    /\ SubmitCall
    /\ call.before["h1"] = {}
    /\ Shown("h1") = {"invalid"}
    /\ "valid" \in call.before["h2"]
    /\ Shown("h2") = {"invalid"}

\* the error boxes a handle owns, and the messages of a field result
BoxesOf(h) == {i \in 1..Len(errorBoxes) : errorBoxes[i].owner = h}
MessagesOf(result) == [i \in 1..Len(result.errors) |-> result.errors[i].message]

\* C19: validateAll returns the result of the current snapshot, and when it
\* has returned every tracked field with a result displays that result: the
\* valid class and no error box, or the invalid class and one error box
\* holding the messages of the result.
C19_ValidateAllDisplaysEveryField ==
    (call.op = "validateAll" /\ ret.kind = "return") =>
        /\ call.formData = getFormData
        /\ validationResults = ret
        /\ \A i \in 1..Len(ret.fields) :
              MapHas(fields, ret.fields[i].key) =>
                  LET h == MapGet(fields, ret.fields[i].key).element
                      result == ret.fields[i].val
                  IN  IF result.isValid
                      THEN Shown(h) = {"valid"} /\ BoxesOf(h) = {}
                      ELSE /\ Shown(h) = {"invalid"}
                           /\ \E b \in BoxesOf(h) :
                                 /\ BoxesOf(h) = {b}
                                 /\ errorBoxes[b].items = MessagesOf(result)

(***************************************************************************)
(* Two FormValidator instances on one page.  The variables validationRules, *)
(* errorMessages and fieldConfigs are the Maps of the first; `other` is the *)
(* second, with `maps` telling whose Maps its three fields refer to.        *)
(***************************************************************************)
\* the constructor with a slip: the three Maps are kept by the module, one
\* set for every instance
FormValidatorSharedMaps ==
    [maps |-> "shared", validationRules |-> <<>>, errorMessages |-> <<>>,
     fieldConfigs |-> <<>>]

\* FormValidator.constructor: three new Maps, then initializeDefaultRules
FormValidator ==
    [maps |-> "own", validationRules |-> DefaultRules(Len(BuiltinRules)),
     errorMessages |-> DefaultMessages(Len(BuiltinRules)), fieldConfigs |-> <<>>]

\* this.validationRules, this.errorMessages, this.fieldConfigs of the second
\* instance
OtherMaps ==
    IF other.maps = "shared"
    THEN [validationRules |-> validationRules, errorMessages |-> errorMessages,
          fieldConfigs |-> fieldConfigs]
    ELSE [validationRules |-> other.validationRules, errorMessages |-> other.errorMessages,
          fieldConfigs |-> other.fieldConfigs]

\* a write of the second instance to its Maps
OtherStore(maps) ==
    IF other.maps = "shared"
    THEN /\ validationRules' = maps.validationRules
         /\ errorMessages' = maps.errorMessages
         /\ fieldConfigs' = maps.fieldConfigs
         /\ UNCHANGED other
    ELSE /\ other' = [other EXCEPT !.validationRules = maps.validationRules,
                                   !.errorMessages = maps.errorMessages,
                                   !.fieldConfigs = maps.fieldConfigs]
         /\ UNCHANGED engineVars

\* new FormValidator(), a second time
Construct ==
    /\ other' = FormValidator
    /\ UNCHANGED <<engineVars, domVars, handlerVars, observerVars>>

\* the four mutating calls, on the second instance
OtherAddValidationRule(name, rule) ==
    /\ other.maps # "none"
    /\ OtherStore([OtherMaps EXCEPT
                      !.validationRules = addValidationRule(@, name, rule.validator),
                      !.errorMessages = MapSet(@, name, rule.message)])
    /\ UNCHANGED <<domVars, handlerVars, observerVars>>

OtherConfigureField(fieldName, config) ==
    /\ other.maps # "none"
    /\ OtherStore([OtherMaps EXCEPT !.fieldConfigs = configureField(@, fieldName, config)])
    /\ UNCHANGED <<domVars, handlerVars, observerVars>>

OtherResetField(fieldName) ==
    /\ other.maps # "none"
    /\ OtherStore([OtherMaps EXCEPT !.fieldConfigs = resetField(@, fieldName)])
    /\ UNCHANGED <<domVars, handlerVars, observerVars>>

OtherClearAll ==
    /\ other.maps # "none"
    /\ OtherStore([OtherMaps EXCEPT !.fieldConfigs = <<>>])
    /\ UNCHANGED <<domVars, handlerVars, observerVars>>

\* the fields, the configuration, the rule and the values the two instances
\* are used with
InstanceFields == {"x", "y"}
InstanceConfigs == {CfgCustom}
InstanceRules == {rule \in CustomRules : rule.validator = "inventory"}
InstanceValues == {Str(<<>>), Str(<<"a">>)}

\* a mutating call on the first instance, and one on the second
ThisStep ==
    \/ \E name \in RegNames, rule \in InstanceRules : AddValidationRule(name, rule)
    \/ \E fieldName \in InstanceFields, config \in InstanceConfigs :
          ConfigureField(fieldName, config)
    \/ \E fieldName \in InstanceFields : ResetField(fieldName)
    \/ ClearAll

OtherStep ==
    \/ \E name \in RegNames, rule \in InstanceRules : OtherAddValidationRule(name, rule)
    \/ \E fieldName \in InstanceFields, config \in InstanceConfigs :
          OtherConfigureField(fieldName, config)
    \/ \E fieldName \in InstanceFields : OtherResetField(fieldName)
    \/ OtherClearAll

NextInstances == Construct \/ ThisStep \/ OtherStep

SpecInstances == Init /\ [][NextInstances]_vars

\* C20: addValidationRule, configureField, resetField and clearAll on one
\* instance leave the other instance's rules, message templates and field
\* configurations as they were, and with them every validation result the
\* other instance gives.
C20_InstancesAreIndependent ==
    [][/\ OtherStep =>
             /\ UNCHANGED engineVars
             /\ \A fieldName \in InstanceFields, value \in InstanceValues :
                   validateField(fieldName, value, FdA)' = validateField(fieldName, value, FdA)
       /\ ThisStep => OtherMaps' = OtherMaps]_vars

\* both instances have been given a rule and a configuration the other one
\* does not have
C20_Witness ==
    /\ other.maps # "none"
    /\ MapHas(OtherMaps.validationRules, "custom")
    /\ ~MapHas(validationRules, "custom")
    /\ MapGet(validationRules, "email") # MapGet(OtherMaps.validationRules, "email")
    /\ MapHas(OtherMaps.fieldConfigs, "x")
    /\ ~MapHas(fieldConfigs, "x")
    /\ MapHas(fieldConfigs, "y")
    /\ ~MapHas(OtherMaps.fieldConfigs, "y")

(***************************************************************************)
(* The configuration store: configureField, configureFields, resetField,   *)
(* clearAll, with validations between them                                 *)
(***************************************************************************)
\* the configurations, and the objects configureFields is given, as
\* Object.entries lists them
StoreConfigs == {CfgRequired, CfgPhone, CfgCustom}
StoreMaps ==
    {<<[key |-> "7", val |-> CfgRequired], [key |-> "x", val |-> CfgCustom]>>,
     <<[key |-> "y", val |-> CfgPhone]>>}
StoreValues == {Undef, Str(<<>>), Str(<<"a">>)}

NextStore ==
    \/ \E fieldName \in EngineFields, config \in StoreConfigs : ConfigureField(fieldName, config)
    \/ \E entries \in StoreMaps : ConfigureFields(entries)
    \/ \E fieldName \in EngineFields : ResetField(fieldName)
    \/ ClearAll
    \/ \E name \in RegNames, rule \in InstanceRules : AddValidationRule(name, rule)
    \/ \E fieldName \in FieldNames, value \in StoreValues : ValidateField(fieldName, value, FdA)
    \/ \E formData \in FormDatas : ValidateForm(formData)
    \/ GetAvailableRules

SpecStore == Init /\ [][NextStore]_vars

(***************************************************************************)
(* Properties of the configuration store                                   *)
(***************************************************************************)
\* the registry is as the remembered call found it
RegistryKept ==
    /\ validationRules = call.before.validationRules
    /\ errorMessages = call.before.errorMessages

\* every field outside `names` is configured as the remembered call found it
OthersKept(names) ==
    \A g \in FieldNames \ names :
        /\ MapHas(fieldConfigs, g) = MapHas(call.before.fieldConfigs, g)
        /\ MapHas(fieldConfigs, g) => MapGet(fieldConfigs, g) = MapGet(call.before.fieldConfigs, g)

\* the fields are configured in the order they were, the new ones after them
\* in the order `names` has them
OrderKept(names) ==
    MapKeys(fieldConfigs) =
        MapKeys(call.before.fieldConfigs) \o
        SelectSeq(names, LAMBDA k : ~MapHas(call.before.fieldConfigs, k))

\* a validation of the field takes its rules from `config` and nowhere else:
\* rule i of the list is invoked, or warned about when it is not registered
UsesOnly(fieldName, config) ==
    \A value \in StoreValues :
        LET r == validateField(fieldName, value, FdA)
            known == SelectSeq(config.rules, LAMBDA rule : MapHas(validationRules, rule.name))
            unknown == SelectSeq(config.rules, LAMBDA rule : ~MapHas(validationRules, rule.name))
        IN  r.kind = "return" =>
               /\ [k \in 1..Len(r.trace) |-> r.trace[k].rule] =
                     [k \in 1..Len(known) |-> known[k].name]
               /\ r.warnings = [k \in 1..Len(unknown) |-> unknown[k].name]

\* C21: configureField(name, config) makes config the configuration of the
\* field, whatever it had, so that validations use the rules of config only;
\* it leaves every other field's configuration and the registry unchanged.
\* configureFields does the same for every entry of the object it is given.
C21_ConfigureFieldReplaces ==
    /\ call.op = "configureField" =>
          /\ MapHas(fieldConfigs, call.fieldName)
          /\ MapGet(fieldConfigs, call.fieldName) = call.given
          /\ UsesOnly(call.fieldName, call.given)
          /\ OthersKept({call.fieldName})
          /\ OrderKept(<<call.fieldName>>)
          /\ RegistryKept
    /\ call.op = "configureFields" =>
          /\ \A i \in 1..Len(call.given) :
                /\ MapHas(fieldConfigs, call.given[i].key)
                /\ MapGet(fieldConfigs, call.given[i].key) = call.given[i].val
                /\ UsesOnly(call.given[i].key, call.given[i].val)
          /\ OthersKept(KeySet(call.given))
          /\ OrderKept(MapKeys(call.given))
          /\ RegistryKept

\* a field configured anew with other rules, beside another configured field
\* and a registry that has a custom rule
C21_Witness ==
    /\ call.op = "configureField"
    /\ MapHas(call.before.fieldConfigs, call.fieldName)
    /\ MapGet(call.before.fieldConfigs, call.fieldName) = CfgPhone
    /\ call.given = CfgRequired
    /\ Len(fieldConfigs) > 1
    /\ MapHas(validationRules, "custom")

\* the field is valid whatever its value
UnconditionallyValid(fieldName) ==
    \A value \in Values : validateField(fieldName, value, FdA) = Returned(TRUE, <<>>, <<>>, <<>>, <<>>)

\* C22: after resetField(name) the field is valid whatever its value and the
\* other fields are configured as before; after clearAll() every field is
\* valid whatever its value and validateForm returns a valid result without
\* fields and without errors; neither changes the registry, so that
\* getAvailableRules lists the names it listed before.
C22_ResetAndClear ==
    /\ call.op = "resetField" =>
          /\ UnconditionallyValid(call.fieldName)
          /\ OthersKept({call.fieldName})
          /\ RegistryKept
          /\ getAvailableRules = MapKeys(call.before.validationRules)
    /\ call.op = "clearAll" =>
          /\ \A fieldName \in FieldNames : UnconditionallyValid(fieldName)
          /\ \A formData \in FormDatas :
                LET r == validateForm(formData)
                IN  r.kind = "return" /\ r.isValid /\ r.fields = <<>> /\ r.errors = <<>>
          /\ RegistryKept
          /\ getAvailableRules = MapKeys(call.before.validationRules)

\* resetField of a field that had rules, beside another configured field and
\* with a custom rule in the registry
C22_Witness ==
    /\ call.op = "resetField"
    /\ MapHas(call.before.fieldConfigs, call.fieldName)
    /\ MapGet(call.before.fieldConfigs, call.fieldName) = CfgPhone
    /\ Len(fieldConfigs) > 0
    /\ MapHas(validationRules, "custom")

(***************************************************************************)
(* Properties of the order of the rule references                          *)
(***************************************************************************)
\* the orderings of a list, each as the positions it takes its items from
Orderings(n) == {p \in [1..n -> 1..n] : \A i, j \in 1..n : p[i] = p[j] => i = j}
Reordered(seq, p) == [i \in 1..Len(seq) |-> seq[p[i]]]

\* the failures of a result, whatever their order
FailureSet(r) == {r.errors[k] : k \in 1..Len(r.errors)}

\* what the last validateField call gives for another list of rule references
ResultFor(rules) ==
    RuleLoop(call.fieldName, rules, 1, call.value, call.formData,
             [errors |-> <<>>, trace |-> <<>>, warnings |-> <<>>])

\* C23: for every ordering of the rule references of the field, the value
\* and the form data of a validateField call give the same isValid and the
\* same failures (rule, message and params) as the call gave.
C23_OrderDoesNotChangeValidity ==
    FieldCallReturned =>
        \A p \in Orderings(Len(CalledRules)) :
            LET r == ResultFor(Reordered(CalledRules, p))
            IN  /\ r.kind = "return"
                /\ r.isValid = ret.isValid
                /\ Len(r.errors) = Len(ret.errors)
                /\ FailureSet(r) = FailureSet(ret)

\* a call with five rule references of which at least two fail and one
\* passes
C23_Witness ==
    /\ FieldCallReturned
    /\ Len(CalledRules) = 5
    /\ Len(ret.errors) >= 2
    /\ Len(ret.errors) < Len(ret.trace)

\* the reference is to a registered rule whose predicate returns false for
\* the value and the form data of the last call
Fails(rule) ==
    /\ Registered(rule.name)
    /\ Invoke(MapGet(validationRules, rule.name), call.value, RefParams(rule), call.formData)
          = "false"

\* C24: the errors of a field result are the failing rule references of the
\* field in the order the configuration declares them.
C24_ErrorsInDeclaredOrder ==
    FieldCallReturned =>
        LET failing == SelectSeq(CalledRules, Fails)
        IN  /\ Len(ret.errors) = Len(failing)
            /\ \A k \in 1..Len(failing) :
                  /\ ret.errors[k].rule = failing[k].name
                  /\ ret.errors[k].params = RefParams(failing[k])

\* two failures with a passing rule declared between them
C24_Witness ==
    /\ FieldCallReturned
    /\ Len(ret.errors) >= 2
    /\ \E i, j, k \in 1..Len(CalledRules) :
          /\ i < j /\ j < k
          /\ Fails(CalledRules[i]) /\ ~Fails(CalledRules[j]) /\ Fails(CalledRules[k])
          /\ CalledRules[i].name # CalledRules[k].name

(***************************************************************************)
(* The built-in rules, each as the only rule of a field                    *)
(***************************************************************************)
BuiltinNames == {BuiltinRules[i] : i \in 1..Len(BuiltinRules)}
BuiltinParams ==
    {<<>>,
     <<Param("length", Num(3))>>,
     <<Param("value", Num(1))>>,
     <<Param("pattern", Str(<<"a">>))>>,
     <<Param("matchField", Str(<<"x">>))>>,
     <<Param("min", Num(18))>>}
BuiltinValues == Values \cup {Null, Num(0)}
SingleRule(name, params) == [rules |-> <<RefObj(name, params, NoMessage)>>]

NextBuiltin ==
    \/ \E name \in BuiltinNames, params \in BuiltinParams :
          ConfigureField("y", SingleRule(name, params))
    \/ \E value \in BuiltinValues, formData \in FormDatas : ValidateField("y", value, formData)

SpecBuiltin == Init /\ [][NextBuiltin]_vars

\* null, undefined and the empty string
AbsentValues == {Undef, Null, Str(<<>>)}

\* C25: a field whose only rule is a built-in rule other than required is
\* valid for null, undefined and '', whatever the params and the form data;
\* a field whose only rule is required is valid exactly when the value is
\* neither null nor undefined and its text, trimmed, is not empty.
C25_BuiltinRulesAreValueOptional ==
    (FieldCall /\ Len(CalledRules) = 1) =>
        LET name == CalledRules[1].name
        IN  /\ (name # "required" /\ call.value \in AbsentValues) =>
                  ret.kind = "return" /\ ret.isValid /\ ret.errors = <<>>
            /\ name = "required" =>
                  /\ ret.kind = "return"
                  /\ ret.isValid <=> /\ call.value \notin {Undef, Null}
                                     /\ Trim(ToText(call.value)) # <<>>

\* confirmPassword given null while the other field has a text
C25_Witness ==
    /\ FieldCallReturned
    /\ CalledRules = SingleRule("confirmPassword", <<Param("matchField", Str(<<"x">>))>>).rules
    /\ call.value = Null
    /\ Prop(call.formData, "x") = Str(<<"a">>)
    /\ ret.isValid

(***************************************************************************)
(* Properties of the input, blur and focus listeners                       *)
(***************************************************************************)
\* the last step was an input or blur event on the handle of a tracked field
RealtimeEvent ==
    /\ call.op \in {"input", "blur"}
    /\ MapHas(fields, call.fieldName)
    /\ MapGet(fields, call.fieldName).element = call.target

\* the handle displays the result: the class of its validity and, when it is
\* invalid, one error box with its messages
Displays(h, result) ==
    IF result.isValid
    THEN Shown(h) = {"valid"} /\ BoxesOf(h) = {}
    ELSE /\ Shown(h) = {"invalid"}
         /\ \E b \in BoxesOf(h) :
               BoxesOf(h) = {b} /\ errorBoxes[b].items = MessagesOf(result)

\* C26: after an input or blur event on a tracked field the field displays
\* valid or invalid, never both and never neither, and what it displays, the
\* messages included, is the result of validateField for its current value
\* and the snapshot of the form at the event.
C26_RealtimeDisplaysResult ==
    RealtimeEvent =>
        LET r == validateField(call.fieldName, elValue[call.target], getFormData)
        IN  r.kind = "return" /\ Displays(call.target, FieldResult(r))

\* the last step was a focus event on the handle of a tracked field
FocusEvent ==
    /\ call.op = "focus"
    /\ MapHas(fields, call.fieldName)
    /\ MapGet(fields, call.fieldName).element = call.target

\* C27: after a focus event on a tracked field the field displays neither
\* valid nor invalid and none of its error messages.  (The listener changes
\* nothing but the page, so the field stays tracked and configured.)
C27_FocusClearsDisplay ==
    FocusEvent => Shown(call.target) = {} /\ BoxesOf(call.target) = {}

(***************************************************************************)
(* A FormHandler constructed over a form with a radio group                *)
(***************************************************************************)
\* the inputs a form may hold when its handler is constructed
PageElements == {"h1", "h3", "r1", "r2", "n1"}
PageTypedInto == {"h1", "n1"}
\* the value attribute of each input
ElValueAttr(h) ==
    CASE ElType(h) = "checkbox" -> CheckboxValue
      [] h = "r1" -> Str(<<"a">>)
      [] h = "r2" -> Str(<<"b">>)
      [] OTHER -> Str(<<>>)

\* new FormHandler(selector), with no validator given, over a form that
\* holds some of the inputs
InitPage ==
    /\ attached \in SUBSET PageElements
    /\ validationRules = DefaultRules(Len(BuiltinRules))
    /\ errorMessages = DefaultMessages(Len(BuiltinRules))
    /\ fieldConfigs = DiscoverLoop(attached, 1, [fields |-> <<>>, configs |-> <<>>]).configs
    /\ fields = DiscoverLoop(attached, 1, [fields |-> <<>>, configs |-> <<>>]).fields
    /\ elValue = [h \in Elements \cup PageElements |-> ElValueAttr(h)]
    /\ elChecked = [h \in Elements \cup PageElements |-> FALSE]
    /\ elClass = [h \in Elements \cup PageElements |-> {}]
    /\ errorBoxes = <<>>
    /\ validationResults = NoResult
    /\ listeners = [h \in Elements \cup PageElements |-> 0]
    /\ hooks = <<>>
    /\ event = NoEvent
    /\ removed = [name \in FieldNames |-> NotRemoved]
    /\ other = NoInstance
    /\ call = [NoCall EXCEPT !.op = "FormHandler"]
    /\ ret = NoResult
    /\ prev = NoPrev
    /\ registrations =
         [name \in RegNames |->
            IF \E i \in 1..Len(BuiltinRules) : BuiltinRules[i] = name
            THEN [count |-> 1, validator |-> name, message |-> Msg(DefaultMessage(name))]
            ELSE [count |-> 0, validator |-> "", message |-> NoMessage]]

\* The user clicks a checkbox or a radio input.  A checkbox flips; a radio
\* that is not checked becomes checked and the other members of its group
\* are unchecked.  An input event is due.
Click(h) ==
    /\ event = NoEvent
    /\ h \in attached
    /\ ElType(h) \in {"checkbox", "radio"}
    /\ ElType(h) = "radio" => ~elChecked[h]
    /\ elChecked' = [k \in DOMAIN elChecked |->
                        IF k = h THEN ~elChecked[h]
                        ELSE IF /\ ElType(h) = "radio" /\ ElType(k) = "radio"
                                /\ ElName(k) = ElName(h) /\ k \in attached
                             THEN FALSE
                             ELSE elChecked[k]]
    /\ event' = [type |-> "input", target |-> h]
    /\ Forget
    /\ UNCHANGED <<engineVars, attached, elValue, elClass, errorBoxes, handlerVars,
                   registrations, removed>>
    /\ UNCHANGED other

\* FormHandler.getFormData called from outside
GetFormData ==
    /\ event = NoEvent
    /\ call' = [NoCall EXCEPT !.op = "getFormData"]
    /\ ret' = [kind |-> "return", data |-> getFormData]
    /\ prev' = NoPrev
    /\ UNCHANGED <<engineVars, domVars, handlerVars, registrations, removed>>
    /\ UNCHANGED other

NextPage ==
    \/ \E h \in PageTypedInto, v \in Typed : UserTypes(h, v)
    \/ \E h \in PageElements : Click(h)
    \/ DispatchInput
    \/ \E h \in PageElements : Blur(h)
    \/ GetFormData

SpecPage == InitPage /\ [][NextPage]_vars

(***************************************************************************)
(* Properties of getFormData and of field discovery                        *)
(***************************************************************************)
\* the checked members of the radio group of a name
CheckedMembers(name) ==
    {m \in attached : ElType(m) = "radio" /\ ElName(m) = name /\ elChecked[m]}

\* C28: getFormData gives every checkbox field the boolean of its checked
\* state, every radio group the value of its checked member, whichever
\* member that is, and no entry when no member is checked, and every other
\* field its raw value.
C28_FormDataOfEveryField ==
    call.op = "getFormData" =>
        \A name \in KeySet(fields) :
            LET h == MapGet(fields, name).element
            IN  CASE ElType(h) = "checkbox" ->
                       name \in DOMAIN ret.data /\ ret.data[name] = Bool(elChecked[h])
                  [] ElType(h) = "radio" ->
                       IF CheckedMembers(name) = {} THEN name \notin DOMAIN ret.data
                       ELSE /\ name \in DOMAIN ret.data
                            /\ \E m \in CheckedMembers(name) : ret.data[name] = elValue[m]
                  [] OTHER ->
                       name \in DOMAIN ret.data /\ ret.data[name] = elValue[h]

\* the part of C28 the code keeps: the entry of a radio group is decided by
\* the member the handler tracks, the last one of the group
C28_FormDataOfTrackedElements ==
    call.op = "getFormData" =>
        /\ DOMAIN ret.data \subseteq KeySet(fields)
        /\ \A name \in KeySet(fields) :
              LET h == MapGet(fields, name).element
              IN  CASE ElType(h) = "checkbox" ->
                         name \in DOMAIN ret.data /\ ret.data[name] = Bool(elChecked[h])
                    [] ElType(h) = "radio" ->
                         IF elChecked[h]
                         THEN name \in DOMAIN ret.data /\ ret.data[name] = elValue[h]
                         ELSE name \notin DOMAIN ret.data
                    [] OTHER ->
                         name \in DOMAIN ret.data /\ ret.data[name] = elValue[h]

\* the first member of the group is checked and the group has no entry
C28_FirstMemberChecked ==
    /\ call.op = "getFormData"
    /\ {"r1", "r2"} \subseteq attached
    /\ elChecked["r1"]
    /\ "x" \notin DOMAIN ret.data

\* the inputs of the form that carry a name, and those of them whose
\* attributes give at least one rule
Named == {h \in attached : ElName(h) # ""}
WithRules == {h \in Named : Len(parseValidationAttributes(h).rules) > 0}

\* C29: the handler constructed, it tracks exactly the names of the inputs
\* that have a name or an id, and the engine has a configuration for exactly
\* the names of the inputs whose derived configuration has at least one rule,
\* that configuration; an input without rules is tracked and not configured,
\* an input with neither name nor id is not tracked.
C29_DiscoveryConfiguresFieldsWithRules ==
    call.op = "FormHandler" =>
        /\ KeySet(fields) = {ElName(h) : h \in Named}
        /\ KeySet(fieldConfigs) = {ElName(h) : h \in WithRules}
        /\ \A h \in WithRules : MapGet(fieldConfigs, ElName(h)) = parseValidationAttributes(h)
        /\ \A h \in attached : ElName(h) = "" => \A name \in KeySet(fields) :
                                                    MapGet(fields, name).element # h

\* a form with an input with a rule, one without a rule and a nameless one
C29_Witness ==
    /\ call.op = "FormHandler"
    /\ {"h1", "h3", "n1"} \subseteq attached
    /\ MapHas(fields, "7") /\ ~MapHas(fieldConfigs, "7")
    /\ MapHas(fieldConfigs, "y")
    /\ Len(fields) = Cardinality({ElName(h) : h \in Named})

(***************************************************************************)
(* Properties of the snapshot a validation pass is given                   *)
(***************************************************************************)
\* C30: a validation pass is decided by the snapshot it is given and by the
\* configuration: no rule reads state that the snapshot did not capture, so
\* a step in which the page changes and the three Maps of the engine do not
\* changes the result of no pass over any snapshot.
C30_RulesReadOnlyTheSnapshot ==
    [][(domVars' # domVars /\ engineVars' = engineVars) =>
          \A formData \in FormDatas : validateForm(formData)' = validateForm(formData)]_vars

(***************************************************************************)
(* The rules the README documents as built in                              *)
(***************************************************************************)
\* the names under "Built-in Validation Rules"
ReadmeRules == {"required", "minLength", "maxLength", "pattern", "email", "phone", "number",
                "url", "date", "min", "max", "age", "password", "confirmPassword",
                "creditCard", "cpf"}

\* no addValidationRule call has been made since the constructor returned
FreshValidator ==
    /\ registrations["email"].count = 1
    /\ registrations["custom"].count = 0

\* C31: getAvailableRules() of a freshly constructed FormValidator names
\* every rule the README lists as built in.
C31_ReadmeRulesAreAvailable ==
    (call.op = "getAvailableRules" /\ FreshValidator) =>
        \A name \in ReadmeRules : \E i \in 1..Len(ret.names) : ret.names[i] = name

\* the part of C31 the code keeps: the fourteen rules of initializeDefaultRules
C31_DefaultRulesAreAvailable ==
    (call.op = "getAvailableRules" /\ FreshValidator) =>
        {ret.names[i] : i \in 1..Len(ret.names)} = ReadmeRules \ {"creditCard", "cpf"}

(***************************************************************************)
(* Rules that are registered late, and predicates that answer late         *)
(***************************************************************************)
\* what `custom` is registered with: the async predicate of
\* advanced-examples.js and a synchronous one
LateRules ==
    {[validator |-> "usernameAvailable",
      message |-> Msg(<<"This username is already taken">>)],
     [validator |-> "inventory",
      message |-> Msg(<<"Inventory quantity must be between 0 and 999,999">>)]}
CfgUsername == [rules |-> <<Ref("required"), Ref("custom")>>]
LateConfigs == {CfgUsername, CfgCustom}
LateValues == {Str(<<>>), Str(<<"a">>), Str(<<"T", "e", "s", "t">>), Num(25)}

NextLate ==
    \/ \E rule \in LateRules : AddValidationRule("custom", rule)
    \/ \E fieldName \in EngineFields, config \in LateConfigs : ConfigureField(fieldName, config)
    \/ \E fieldName \in EngineFields, value \in LateValues, formData \in FieldFormDatas :
          ValidateField(fieldName, value, formData)
    \/ \E formData \in FormDatas : ValidateForm(formData)

SpecLate == Init /\ [][NextLate]_vars

\* the rule `custom` is the async predicate
CustomIsAsync == registrations["custom"].validator = "usernameAvailable"

RefsTo(fieldName, name) ==
    {i \in 1..Len(MapGet(fieldConfigs, fieldName).rules) :
        MapGet(fieldConfigs, fieldName).rules[i].name = name}
\* a result has invoked the predicate of a reference of the field
Invoked(r, fieldName, i) ==
    \E k \in 1..Len(r.trace) : r.trace[k].field = fieldName /\ r.trace[k].index = i
\* a result carries a warning for a rule name, or an error of it
Warned(r, name) == \E k \in 1..Len(r.warnings) : r.warnings[k] = name
Failed(r, name) == \E k \in 1..Len(r.errors) : r.errors[k].rule = name

\* what validateField and validateForm do with the references of every
\* configured field, the registry being what it is now: a reference to a
\* registered name has its predicate invoked and no warning, a reference to
\* an unregistered one a warning, no invocation and no error
ResolvedNow ==
    \A fieldName \in KeySet(fieldConfigs) : \A name \in RegNames :
        \A i \in RefsTo(fieldName, name) :
            /\ \A value \in LateValues :
                  \E r \in {validateField(fieldName, value, FdA)} :
                      IF MapHas(validationRules, name)
                      THEN Invoked(r, fieldName, i) /\ ~Warned(r, name)
                      ELSE Warned(r, name) /\ ~Invoked(r, fieldName, i) /\ ~Failed(r, name)
            /\ \A formData \in FormDatas :
                  \E r \in {validateForm(formData)} :
                      IF MapHas(validationRules, name)
                      THEN Invoked(r, fieldName, i) /\ ~Warned(r, name)
                      ELSE Warned(r, name) /\ ~Invoked(r, fieldName, i)

\* C40: rule names are resolved when a field is validated, not when it is
\* configured.  A registration leaves every configuration as it is, and in
\* every state, before a name is registered and after, the references to it
\* are skipped with a warning or validated by its predicate according to
\* the registry of that moment.
C40_NamesResolvedAtValidation ==
    [][/\ ResolvedNow
       /\ validationRules' # validationRules => fieldConfigs' = fieldConfigs]_vars

\* `custom` has been registered once, a field references it, and a call
\* after the registration has failed the field by it
C40_Witness ==
    /\ FieldCallReturned
    /\ registrations["custom"].count = 1
    /\ MapHas(fieldConfigs, call.fieldName)
    /\ RefsTo(call.fieldName, "custom") # {}
    /\ \A i \in RefsTo(call.fieldName, "custom") : Invoked(ret, call.fieldName, i)
    /\ Failed(ret, "custom")
    /\ ret.warnings = <<>>

(***************************************************************************)
(* Properties of min and max                                               *)
(***************************************************************************)
\* the last call validated a field whose only rule is min or max with a
\* bound, given a value that is neither null, undefined nor ''
RangeCall ==
    /\ FieldCall
    /\ Len(CalledRules) = 1
    /\ CalledRules[1].name \in {"min", "max"}
    /\ MapHas(CalledRules[1].params, "value")
    /\ call.value \notin AbsentValues

\* C33: min{value: b} is valid exactly when the numeric value of a present
\* value is at least b, max{value: b} exactly when it is at most b; the
\* number 0 is a present value.
C33_MinMaxCompareEveryPresentValue ==
    RangeCall =>
        /\ ret.kind = "return"
        /\ ret.isValid <=>
              IF CalledRules[1].name = "min"
              THEN GreaterEq(ParseNumber(call.value), ToNumber(MapGet(CalledRules[1].params, "value")))
              ELSE LessEq(ParseNumber(call.value), ToNumber(MapGet(CalledRules[1].params, "value")))

\* the part of C33 the code keeps: every value that is not falsy is compared
C33_MinMaxCompareEveryTruthyValue ==
    (RangeCall /\ ~Falsy(call.value)) =>
        /\ ret.kind = "return"
        /\ ret.isValid <=>
              IF CalledRules[1].name = "min"
              THEN GreaterEq(ParseNumber(call.value), ToNumber(MapGet(CalledRules[1].params, "value")))
              ELSE LessEq(ParseNumber(call.value), ToNumber(MapGet(CalledRules[1].params, "value")))

(***************************************************************************)
(* isValid and errors of a result                                          *)
(***************************************************************************)
\* C34: every result the engine returns is valid exactly when its errors are
\* empty: the result of validateField, the result of validateForm, and every
\* field result inside a form result.
C34_ValidIffNoErrors ==
    /\ FieldCallReturned => (ret.isValid <=> ret.errors = <<>>)
    /\ FormCallReturned =>
          /\ ret.isValid <=> ret.errors = <<>>
          /\ \A i \in 1..Len(ret.fields) :
                ret.fields[i].val.isValid <=> ret.fields[i].val.errors = <<>>

\* a form of a valid field and an invalid one: invalid, with errors
C34_Witness ==
    /\ FormCallReturned
    /\ ~ret.isValid
    /\ ret.errors # <<>>
    /\ \E i \in 1..Len(ret.fields) : ret.fields[i].val.isValid
    /\ \E i \in 1..Len(ret.fields) : ret.fields[i].val.errors # <<>>

(***************************************************************************)
(* What an event on one handle does to the other fields                    *)
(***************************************************************************)
\* the error boxes of a handle, in document order
OwnBoxes(boxes, h) == SelectSeq(boxes, LAMBDA b : b.owner = h)

\* C35: an input, blur or focus event on one handle leaves what every other
\* tracked field displays as it was: its classes and its error boxes with
\* their messages.
C35_OtherFieldsKeepDisplay ==
    call.op \in {"input", "blur", "focus"} =>
        \A name \in KeySet(fields) :
            LET h == MapGet(fields, name).element
            IN  h # call.target =>
                    /\ elClass[h] = call.before.cls[h]
                    /\ OwnBoxes(errorBoxes, h) = OwnBoxes(call.before.boxes, h)

\* the part of C35 the code keeps: the classes of the other handles
C35_OtherFieldsKeepClass ==
    call.op \in {"input", "blur", "focus"} =>
        \A h \in Elements : h # call.target => elClass[h] = call.before.cls[h]

(***************************************************************************)
(* The configurations of the handler and those of the engine               *)
(***************************************************************************)
\* C36: the engine has a configuration for a name exactly when the handler
\* tracks the name with a configuration of at least one rule, and it is that
\* configuration.
C36_EngineAndHandlerAgree ==
    \A name \in FieldNames :
        /\ MapHas(fieldConfigs, name) <=>
              (MapHas(fields, name) /\ Len(MapGet(fields, name).config.rules) > 0)
        /\ MapHas(fieldConfigs, name) =>
              MapGet(fieldConfigs, name) = MapGet(fields, name).config

\* the part of C36 the code keeps: the engine has no configuration for a
\* name the handler does not track, and a tracked configuration with rules
\* is the engine's
C36_TrackedRulesAreConfigured ==
    \A name \in FieldNames :
        /\ MapHas(fieldConfigs, name) => MapHas(fields, name)
        /\ (MapHas(fields, name) /\ Len(MapGet(fields, name).config.rules) > 0) =>
              (MapHas(fieldConfigs, name)
                 /\ MapGet(fieldConfigs, name) = MapGet(fields, name).config)

(***************************************************************************)
(* The value the listeners validate and the value validateAll validates    *)
(***************************************************************************)
\* what validateFieldRealtime computes for a handle: validateField of
\* element.value with the snapshot of the form
RealtimeResult(h) == validateField(ElName(h), elValue[h], getFormData)

\* C37: the result the input and blur listeners compute for a tracked field
\* is the field's entry in the result validateAll gives for the same page:
\* the same isValid and the same errors, for text, checkbox and radio inputs.
C37_RealtimeAgreesWithValidateAll ==
    RealtimeEvent =>
        \E all \in {validateForm(getFormData)} :
            (all.kind = "return" /\ MapHas(all.fields, call.fieldName)) =>
                /\ RealtimeResult(call.target).kind = "return"
                /\ FieldResult(RealtimeResult(call.target)) = MapGet(all.fields, call.fieldName)

\* the part of C37 the code keeps: the two agree for every input that is
\* neither a checkbox nor a radio
C37_TextAgreesWithValidateAll ==
    (RealtimeEvent /\ ElType(call.target) \notin {"checkbox", "radio"}) =>
        \E all \in {validateForm(getFormData)} :
            (all.kind = "return" /\ MapHas(all.fields, call.fieldName)) =>
                /\ RealtimeResult(call.target).kind = "return"
                /\ FieldResult(RealtimeResult(call.target)) = MapGet(all.fields, call.fieldName)

\* a text input with a rule has had an event
C37_TextEvent ==
    /\ RealtimeEvent
    /\ ElType(call.target) = "text"
    /\ MapHas(fieldConfigs, call.fieldName)

(***************************************************************************)
(* A handler whose validator is also reconfigured directly                 *)
(***************************************************************************)
\* the input the user works on, and the field the page's script resets and
\* configures through the validator
StaleTyped == {"h1"}
StaleFields == {"y"}

NextStale ==
    \/ \E h \in StaleTyped, v \in Typed : UserTypes(h, v)
    \/ DispatchInput
    \/ \E h \in StaleTyped : Blur(h)
    \/ \E h \in StaleTyped : Focus(h)
    \/ \E fieldName \in StaleFields : ConfigureField(fieldName, CfgRequired)
    \/ \E fieldName \in StaleFields : ResetField(fieldName)
    \/ ClearAll
    \/ Submit
    \/ ValidateAll

SpecStale == InitHandler /\ [][NextStale]_vars

\* C38: when validateAll or a submit has given a valid result, no tracked
\* field is displayed invalid.
C38_ValidFormShowsNoInvalidField ==
    (call.op \in {"validateAll", "submit"} /\ ret.kind = "return" /\ ret.isValid) =>
        \A name \in KeySet(fields) : "invalid" \notin elClass[MapGet(fields, name).element]

\* the part of C38 the code keeps: no tracked field that the engine has a
\* configuration for is displayed invalid
C38_ValidFormShowsNoInvalidConfiguredField ==
    (call.op \in {"validateAll", "submit"} /\ ret.kind = "return" /\ ret.isValid) =>
        \A name \in KeySet(fields) :
            MapHas(fieldConfigs, name) => "invalid" \notin elClass[MapGet(fields, name).element]

(***************************************************************************)
(* The handlers the applications ship (js/app.js, CustomFormHandler, and   *)
(* js/formulario-empresarial.js, FormHandlerEmpresarial): their            *)
(* onFormInvalid focuses the first failing field.                          *)
(***************************************************************************)
\* what has the focus when the form is submitted: an input of the form, or
\* something else (the submit button)
Focusable == {"h1", "h2", "button"}

\* document.querySelector(`[name="${name}"]`): the first such element
NamedElement(name) ==
    LET found == {h \in attached : ElName(h) = name}
    IN  IF found = {} THEN "none"
        ELSE CHOOSE h \in found : \A k \in found : ElPos(h) <= ElPos(k)

\* element.focus(): nothing when the element has the focus already;
\* otherwise the element that had it gets a blur event and the element a
\* focus event, and the listeners of the handler run
focus(d, h, focused) ==
    IF h = focused THEN d
    ELSE \* the blur listeners on the old element, then the focus listeners
         ClearTimes(ListenerCount(h),
                    IF focused \in attached
                    THEN ValidateTimes(ListenerCount(focused), d, focused)
                    ELSE d,
                    h)

\* CustomFormHandler.showErrorSummary / FormHandlerEmpresarial.enfocarPrimerError
showErrorSummary(d, result, focused) ==
    IF Len(result.errors) = 0 \/ NamedElement(result.errors[1].field) = "none" THEN d
    ELSE focus(d, NamedElement(result.errors[1].field), focused)

\* a submit of a form whose handler is one of the shipped ones: handleSubmit,
\* whose onFormInvalid hook moves the focus
SubmitFocusing(focused) ==
    /\ event = NoEvent
    /\ \E r \in {handleSubmit(Display)} :
       \E d \in {IF r.result.kind = "return" /\ ~r.result.isValid
                 THEN showErrorSummary(r.d, r.result, focused)
                 ELSE r.d} :
           /\ Len(d.boxes) <= MaxBoxes
           /\ validationResults' = IF r.result.kind = "throw" THEN validationResults
                                   ELSE r.result
           /\ elClass' = d.cls
           /\ errorBoxes' = d.boxes
           /\ hooks' = [i \in 1..Len(r.hooks) |-> r.hooks[i].hook]
           /\ call' = [op |-> "submit", fieldName |-> "", value |-> Undef,
                       formData |-> r.formData, fresh |-> TRUE, before |-> elClass,
                       hooks |-> r.hooks, focused |-> focused]
           /\ ret' = r.result
    /\ prev' = NoPrev
    /\ UNCHANGED <<engineVars, attached, elValue, elChecked, event, fields, listeners,
                   registrations, removed>>
    /\ UNCHANGED other

NextShipped ==
    \/ \E h \in AddedHandles : AppendElement(h)
    \/ AddField("x", "h2", CfgRequired)
    \/ \E h \in AddedHandles, v \in Typed : UserTypes(h, v)
    \/ DispatchInput
    \/ \E h \in AddedHandles : Blur(h)
    \/ \E h \in AddedHandles : Focus(h)
    \/ \E focused \in Focusable : SubmitFocusing(focused)

SpecShipped == InitHandler /\ [][NextShipped]_vars

\* C39: when an invalid submit has been handled, the onFormInvalid hook
\* included, every tracked field with a failure in the result is displayed
\* invalid, with an error box of the messages of its failures.
C39_InvalidSubmitShowsEveryFailure ==
    (SubmitCall /\ ret.kind = "return" /\ ~ret.isValid) =>
        \A i \in 1..Len(ret.fields) :
            (MapHas(fields, ret.fields[i].key) /\ ret.fields[i].val.errors # <<>>) =>
                LET h == MapGet(fields, ret.fields[i].key).element
                IN  /\ Shown(h) = {"invalid"}
                    /\ \E b \in BoxesOf(h) : errorBoxes[b].items = MessagesOf(ret.fields[i].val)

\* the part of C39 the code keeps: when the first failing field had the
\* focus already, or when the failing field is not the first one, its
\* invalid class is displayed
C39_UnfocusedFailuresShowInvalid ==
    (SubmitCall /\ ret.kind = "return" /\ ~ret.isValid) =>
        \A i \in 1..Len(ret.fields) :
            (/\ MapHas(fields, ret.fields[i].key)
             /\ ret.fields[i].val.errors # <<>>
             /\ \/ ret.fields[i].key # ret.errors[1].field
                \/ NamedElement(ret.errors[1].field) = call.focused) =>
                    Shown(MapGet(fields, ret.fields[i].key).element) = {"invalid"}
====
